---- MODULE Spec2Model ----
(***************************************************************************)
(* Infrared remote-control analyzer (vite-react-rust-wasm-project).        *)
(*                                                                         *)
(* The React components (InfraredRemoteAnalyzer, the four-phase App, the   *)
(* frame and control-code views, SerialConnectionEffect and the Settings   *)
(* page's serial controls) are modelled from their TypeScript.  The        *)
(* decode pipeline they call (the wasm crate: wasm_parse_infrared_code,    *)
(* wasm_decode_phase1..4, wasm_decord_receiving_data, wasm_decord_ir_      *)
(* frames) is not part of the TypeScript sources; it is modelled from the  *)
(* design document (sections 3, 4 and 7) and from the type declarations    *)
(* in types.ts.                                                            *)
(*                                                                         *)
(* Conventions: a text is a sequence of one-character strings; a           *)
(* Uint8Array of bits is a sequence over {0,1}; a tagged union             *)
(* { Tag: payload } is the one-field record [Tag |-> payload].              *)
(***************************************************************************)
EXTENDS Integers, Sequences, FiniteSets, TLC

VARIABLES
    state,      \* useState<State>: the component's current state object
    rendered,   \* the state object the last render closed over
    fresh,      \* state fields whose value changed identity since that render
    init_arrays,\* array fields that hold initState's own array objects
    todo,       \* effects still to run in the current commit, in order
    stage_in,   \* stage harness: the input handed to one pipeline stage
    stage_out,  \* stage harness: what the stage returned for it
    rxJsonData, \* the Recoil atom rxJsonDataState: the records received so far
    seen_rx,    \* the value of the atom the last render closed over
    switch_checked,    \* what the auto-paste Switch shows (it has no checked prop)
    message_rx_length, \* rxJsonData.length when the last arrival message was opened
    rxText,     \* the Recoil atom rxTextState: the receive buffer
    seen_text,  \* the rxText of SerialConnectionEffect's last commit
    serialPort, \* the Recoil atom serialPortState: NoPort or {port, reader}
    seen_port,  \* the serialPort SerialConnectionEffect's last commit closed over
    timeoutRef, \* timeoutRef.current: the timer it names (by its loop), or NoTimer
    timers,     \* pending setTimeout callbacks, each named by its loop's reader
    reads,      \* readers with a reader.read() in flight
    ports,      \* the browser's SerialPort objects: open or not, and the reader locking readable
    readers,    \* the state of each reader handed out by getReader()
    opening,    \* handleOpenSerialPort calls waiting on port.open(), oldest first
    closing_ports, \* ports with a port.close() in progress
    present,    \* the devices plugged in
    wire        \* how many characters of the device's output have been read

uiVars == <<switch_checked, message_rx_length>>

serialVars == <<rxText, seen_text, serialPort, seen_port, timeoutRef, timers, reads,
                ports, readers, opening, closing_ports, present, wire>>

vars == <<state, rendered, fresh, init_arrays, todo, stage_in, stage_out, rxJsonData, seen_rx,
          uiVars, serialVars>>

\* the serial devices the user may plug in and pick
Ports == {"A", "B"}

\* getReader() is called once per successful open: readers are numbered 1..MaxOpens
MaxOpens == 2

\* serialPortState's default: undefined (reader 0 stands for serialPort?.reader undefined)
NoPort == [port |-> "none", reader |-> 0]

\* timeoutRef.current = undefined
NoTimer == -1

\* InfraredRemoteAnalyzer's widgets when it is mounted
UiInit ==
    /\ switch_checked = FALSE
    /\ message_rx_length = 0

\* SerialConnectionEffect after its mount: the atoms hold their defaults and
\* callToTimeoutLoop has armed its first timer, closed over no port
SerialInit ==
    /\ rxText = <<>>
    /\ seen_text = <<>>
    /\ serialPort = NoPort
    /\ seen_port = NoPort
    /\ timeoutRef = 0
    /\ timers = {0}
    /\ reads = {}
    /\ ports = [p \in Ports |-> [open |-> FALSE, reader |-> 0]]
    /\ readers = [r \in 1..MaxOpens |-> "unused"]
    /\ opening = <<>>
    /\ closing_ports = {}
    /\ present = Ports
    /\ wire = 0

----------------------------------------------------------------------------
(* Generic helpers *)

RECURSIVE Concat(_)
Concat(seqs) ==
    IF seqs = <<>> THEN <<>> ELSE Head(seqs) \o Concat(Tail(seqs))

MapSeq(s, F(_)) == [i \in 1..Len(s) |-> F(s[i])]

Min(a, b) == IF a <= b THEN a ELSE b

\* Uint8Array.prototype.slice(begin, end), 0-based, end exclusive
Slice(bits, begin, end) ==
    SubSeq(bits, Min(begin, Len(bits)) + 1, Min(end, Len(bits)))

Reverse(s) == [i \in 1..Len(s) |-> s[Len(s) + 1 - i]]

----------------------------------------------------------------------------
(* Text *)

Digits == <<"0", "1", "2", "3", "4", "5", "6", "7", "8", "9">>

DigitChars == {Digits[i] : i \in 1..10}

DigitValue(c) == (CHOOSE i \in 1..10 : Digits[i] = c) - 1

RECURSIVE NumberText(_)
\* Number.prototype.toString() of a non-negative integer
NumberText(n) ==
    IF n < 10 THEN <<Digits[n + 1]>>
    ELSE NumberText(n \div 10) \o <<Digits[(n % 10) + 1]>>

RECURSIVE JoinRange(_, _, _)
\* the numbers lo..hi of a list, comma-separated (halving keeps the nesting shallow)
JoinRange(nums, lo, hi) ==
    IF lo > hi THEN <<>>
    ELSE IF lo = hi THEN NumberText(nums[lo])
    ELSE LET mid == (lo + hi) \div 2 IN
         JoinRange(nums, lo, mid) \o <<",">> \o JoinRange(nums, mid + 1, hi)

JoinNumbers(nums) == JoinRange(nums, 1, Len(nums))

\* JSON.stringify(record.rawData) of a number[] of non-negative integers
JSON_stringify(nums) == <<"[">> \o JoinNumbers(nums) \o <<"]">>

----------------------------------------------------------------------------
(* TimingParser: wasm_parse_infrared_code (design 4.1, 6, 7).               *)
(* Grammar: comma-separated tokens, blanks around a token ignored, the     *)
(* whole list optionally enclosed in [ ]; every token is a non-empty run   *)
(* of decimal digits.                                                      *)

\* upper bound of a plausible duration: protocol pulses are sub-second
MaxDurationMicros == 1000000

RECURSIVE TrimLeft(_)
TrimLeft(t) == IF t # <<>> /\ Head(t) = " " THEN TrimLeft(Tail(t)) ELSE t

Trim(t) == Reverse(TrimLeft(Reverse(TrimLeft(t))))

StripBrackets(t) ==
    IF Len(t) >= 2 /\ t[1] = "[" /\ t[Len(t)] = "]" THEN SubSeq(t, 2, Len(t) - 1) ELSE t

\* the pieces of a text between its commas, in order
SplitOnComma(text) ==
    LET commas == SelectSeq([i \in 1..Len(text) |-> i], LAMBDA i : text[i] = ",") IN
    [k \in 1..(Len(commas) + 1) |->
        SubSeq(text,
               IF k = 1 THEN 1 ELSE commas[k - 1] + 1,
               IF k > Len(commas) THEN Len(text) ELSE commas[k] - 1)]

\* the tokens of a text, in order
Tokens(text) == MapSeq(SplitOnComma(StripBrackets(Trim(text))), Trim)

IsNumericToken(tok) == tok # <<>> /\ \A i \in 1..Len(tok) : tok[i] \in DigitChars

RECURSIVE TokenValueFrom(_, _, _)
\* the value of a digit run; values beyond the upper bound are all reported as
\* MaxDurationMicros + 1 (they are rejected whatever their size)
TokenValueFrom(tok, i, acc) ==
    IF i > Len(tok) THEN acc
    ELSE TokenValueFrom(tok, i + 1, Min(10 * acc + DigitValue(tok[i]), MaxDurationMicros + 1))

TokenValue(tok) == TokenValueFrom(tok, 1, 0)

\* a pairing that drops a mark left without its space
PairUpDroppingOdd(nums) ==
    [k \in 1..(Len(nums) \div 2) |-> [mark |-> nums[2 * k - 1], space |-> nums[2 * k]]]

\* alternating mark, space, mark, space, ...: an odd count leaves the last
\* pair with a trailing space of zero
PairUp(nums) ==
    [k \in 1..((Len(nums) + 1) \div 2) |->
        [mark |-> nums[2 * k - 1], space |-> IF 2 * k <= Len(nums) THEN nums[2 * k] ELSE 0]]

ParseOk(pairs) == [ok |-> TRUE, value |-> pairs, error |-> "none"]

ParseError(kind) == [ok |-> FALSE, value |-> <<>>, error |-> kind]

\* a parser that takes a duration of zero for a malformed token
wasm_parse_infrared_code_rejecting_zero(text) ==
    LET toks == Tokens(text) IN
    IF \E i \in 1..Len(toks) : ~IsNumericToken(toks[i]) \/ TokenValue(toks[i]) = 0
    THEN ParseError("MalformedInput")
    ELSE LET nums == MapSeq(toks, TokenValue) IN
         IF \E i \in 1..Len(nums) : nums[i] > MaxDurationMicros THEN ParseError("OutOfRange")
         ELSE ParseOk(PairUp(nums))

wasm_parse_infrared_code(text) ==
    LET toks == Tokens(text) IN
    IF \E i \in 1..Len(toks) : ~IsNumericToken(toks[i]) THEN ParseError("MalformedInput")
    ELSE LET nums == MapSeq(toks, TokenValue) IN
         IF \E i \in 1..Len(nums) : nums[i] > MaxDurationMicros THEN ParseError("OutOfRange")
         ELSE ParseOk(PairUp(nums))

----------------------------------------------------------------------------
(* FrameSplitter: wasm_decode_phase1 (design 4.2) *)

\* long-gap threshold: above every inter-bit gap and leader space of the
\* supported protocols, below the 10 ms gap between two transmissions
FrameGapMicros == 8000

\* a splitter that also closes a Frame at a space equal to the threshold
SplitFramesAtThreshold(pairs) ==
    LET closing == SelectSeq([i \in 1..Len(pairs) |-> i],
                             LAMBDA i : pairs[i].space >= FrameGapMicros \/ i = Len(pairs))
    IN [k \in 1..Len(closing) |->
           SubSeq(pairs, IF k = 1 THEN 1 ELSE closing[k - 1] + 1, closing[k])]

\* a Frame is closed by the pair whose space exceeds the threshold, or by
\* the end of the input
SplitFrames(pairs) ==
    LET closing == SelectSeq([i \in 1..Len(pairs) |-> i],
                             LAMBDA i : pairs[i].space > FrameGapMicros \/ i = Len(pairs))
    IN [k \in 1..Len(closing) |->
           SubSeq(pairs, IF k = 1 THEN 1 ELSE closing[k - 1] + 1, closing[k])]

wasm_decode_phase1(pairs) == SplitFrames(pairs)

----------------------------------------------------------------------------
(* Demodulator: wasm_decode_phase2 (design 4.3) *)

\* time base T of each protocol, microseconds
AehaT == 425

NecT == 562

SircT == 600

\* tolerance band around a nominal duration: -50% .. +50%
Within(x, nominal) == 2 * x >= nominal /\ 2 * x <= 3 * nominal

\* leader: AEHA 8T/4T, NEC 16T/8T, SIRC 4T/1T
IsAehaLeader(p) == Within(p.mark, 8 * AehaT) /\ Within(p.space, 4 * AehaT)

IsNecLeader(p) == Within(p.mark, 16 * NecT) /\ Within(p.space, 8 * NecT)

IsSircLeader(p) == Within(p.mark, 4 * SircT) /\ Within(p.space, SircT)

\* the value 2 stands for a pulse pair outside every bucket
OutOfBucket == 2

\* pulse-distance coding (AEHA, NEC): mark T, space T => 0, space 3T => 1
DistanceBit(p, T) ==
    IF ~Within(p.mark, T) THEN OutOfBucket
    ELSE IF Within(p.space, T) THEN 0
    ELSE IF Within(p.space, 3 * T) THEN 1
    ELSE OutOfBucket

\* the trailer mark that ends an AEHA or NEC frame; its space is the gap
StopBit(p, T) == IF Within(p.mark, T) THEN 1 ELSE OutOfBucket

\* pulse-width coding (SIRC): space T, mark T => 0, mark 2T => 1; the space
\* of the frame's last pair is the gap
WidthBit(p, T, last) ==
    IF ~last /\ ~Within(p.space, T) THEN OutOfBucket
    ELSE IF Within(p.mark, T) THEN 0
    ELSE IF Within(p.mark, 2 * T) THEN 1
    ELSE OutOfBucket

\* the pairs after the leader, one bit each; the bitstream of an AEHA or
\* NEC frame ends with its stop bit
DistanceBits(frame, T) ==
    [i \in 1..(Len(frame) - 1) |->
        IF i < Len(frame) - 1 THEN DistanceBit(frame[i + 1], T) ELSE StopBit(frame[i + 1], T)]

WidthBits(frame, T) ==
    [i \in 1..(Len(frame) - 1) |-> WidthBit(frame[i + 1], T, i = Len(frame) - 1)]

\* a variant whose tag is computed
Tagged(tag, payload) == [t \in {tag} |-> payload]

\* the tag of a variant, and its payload
TagOf(variant) == CHOOSE t \in DOMAIN variant : TRUE

ValueOf(variant) == variant[TagOf(variant)]

Unknown(payload) == [Unknown |-> payload]

\* no backtracking: a classified frame with a pulse out of bucket is Unknown
Demodulated(tag, bits, frame) ==
    IF \E i \in 1..Len(bits) : bits[i] = OutOfBucket THEN Unknown(frame)
    ELSE Tagged(tag, bits)

\* a demodulator that retries a frame under the next protocol
wasm_decode_phase2_backtracking(frame) ==
    LET aeha == Demodulated("Aeha", DistanceBits(frame, AehaT), frame)
        nec == Demodulated("Nec", DistanceBits(frame, NecT), frame)
        sirc == Demodulated("Sirc", WidthBits(frame, SircT), frame)
    IN IF frame = <<>> THEN Unknown(frame)
       ELSE IF IsAehaLeader(frame[1]) /\ TagOf(aeha) # "Unknown" THEN aeha
       ELSE IF IsNecLeader(frame[1]) /\ TagOf(nec) # "Unknown" THEN nec
       ELSE IF IsSircLeader(frame[1]) /\ TagOf(sirc) # "Unknown" THEN sirc
       ELSE Unknown(frame)

wasm_decode_phase2(frame) ==
    IF frame = <<>> THEN Unknown(frame)
    ELSE IF IsAehaLeader(frame[1]) THEN Demodulated("Aeha", DistanceBits(frame, AehaT), frame)
    ELSE IF IsNecLeader(frame[1]) THEN Demodulated("Nec", DistanceBits(frame, NecT), frame)
    ELSE IF IsSircLeader(frame[1]) THEN Demodulated("Sirc", WidthBits(frame, SircT), frame)
    ELSE Unknown(frame)

----------------------------------------------------------------------------
(* FrameDecoder: wasm_decode_phase3 (design 3, 4.4; types.ts)               *)

\* the data bits of an AEHA or NEC bitstream: everything before the stop bit
DataBits(bits) == IF bits = <<>> THEN <<>> ELSE SubSeq(bits, 1, Len(bits) - 1)

StopOf(bits) == IF bits = <<>> THEN 0 ELSE bits[Len(bits)]

\* 8-bit groups in arrival order; a short last group is padded with zero bits
PaddedOctets(bits) ==
    [k \in 1..((Len(bits) + 7) \div 8) |->
        [j \in 1..8 |-> IF 8 * (k - 1) + j <= Len(bits) THEN bits[8 * (k - 1) + j] ELSE 0]]

DecodeAeha(bits) ==
    [Aeha |-> [octets |-> PaddedOctets(DataBits(bits)), stop |-> StopOf(bits)]]

\* a decoder that refuses a NEC frame whose inverse octets do not match
DecodeNecCheckingInverse(bits) ==
    IF /\ Len(DataBits(bits)) = 32
       /\ \A i \in 1..8 : bits[i] + bits[8 + i] = 1 /\ bits[16 + i] + bits[24 + i] = 1
    THEN [Nec |-> [custom0 |-> SubSeq(bits, 1, 8), custom1 |-> SubSeq(bits, 9, 16),
                   data0 |-> SubSeq(bits, 17, 24), data1 |-> SubSeq(bits, 25, 32),
                   stop |-> StopOf(bits)]]
    ELSE Unknown(<<>>)

DecodeNec(bits) ==
    IF Len(DataBits(bits)) = 32
    THEN [Nec |-> [custom0 |-> SubSeq(bits, 1, 8), custom1 |-> SubSeq(bits, 9, 16),
                     data0 |-> SubSeq(bits, 17, 24), data1 |-> SubSeq(bits, 25, 32),
                     stop |-> StopOf(bits)]]
    ELSE Unknown(<<>>)

\* a decoder that takes the nearest shorter SIRC variant
DecodeSircNearest(bits) ==
    IF Len(bits) >= 20
    THEN [Sirc20 |-> [command |-> SubSeq(bits, 1, 7), address |-> SubSeq(bits, 8, 12),
                      extended |-> SubSeq(bits, 13, 20)]]
    ELSE IF Len(bits) >= 15
    THEN [Sirc15 |-> [command |-> SubSeq(bits, 1, 7), address |-> SubSeq(bits, 8, 15)]]
    ELSE IF Len(bits) >= 12
    THEN [Sirc12 |-> [command |-> SubSeq(bits, 1, 7), address |-> SubSeq(bits, 8, 12)]]
    ELSE Unknown(<<>>)

DecodeSirc(bits) ==
    IF Len(bits) = 12
    THEN [Sirc12 |-> [command |-> SubSeq(bits, 1, 7), address |-> SubSeq(bits, 8, 12)]]
    ELSE IF Len(bits) = 15
    THEN [Sirc15 |-> [command |-> SubSeq(bits, 1, 7), address |-> SubSeq(bits, 8, 15)]]
    ELSE IF Len(bits) = 20
    THEN [Sirc20 |-> [command |-> SubSeq(bits, 1, 7), address |-> SubSeq(bits, 8, 12),
                                        extended |-> SubSeq(bits, 13, 20)]]
    ELSE Unknown(<<>>)

wasm_decode_phase3(demodulated) ==
    IF TagOf(demodulated) = "Aeha" THEN DecodeAeha(ValueOf(demodulated))
    ELSE IF TagOf(demodulated) = "Nec" THEN DecodeNec(ValueOf(demodulated))
    ELSE IF TagOf(demodulated) = "Sirc" THEN DecodeSirc(ValueOf(demodulated))
    ELSE Unknown(ValueOf(demodulated))

----------------------------------------------------------------------------
(* ControlCodeInterpreter: wasm_decode_phase4 (design 3, 4.5; types.ts)     *)

RECURSIVE BitsValue(_, _)
\* the number a bit array spells, first bit least significant (AEHA and SIRC
\* transmit the least significant bit first)
BitsValue(bits, i) ==
    IF i > Len(bits) THEN 0 ELSE bits[i] + 2 * BitsValue(bits, i + 1)

ByteLsb(octet) == BitsValue(octet, 1)

RECURSIVE SumFrom(_, _, _)
SumFrom(bytes, i, last) ==
    IF i > last THEN 0 ELSE bytes[i] + SumFrom(bytes, i + 1, last)

\* the checksum byte a frame transmits: its last octet
TransmittedChecksum(bytes) == bytes[Len(bytes)]

\* the vendors' checksum: the sum of all octets before the checksum octet,
\* modulo 256
RecomputedChecksum(bytes) == SumFrom(bytes, 1, Len(bytes) - 1) % 256

HasPrefix(bytes, prefix) ==
    Len(bytes) >= Len(prefix) /\ SubSeq(bytes, 1, Len(prefix)) = prefix

\* vendor signatures: customer code (and parity/fixed octets) of the frame
PanasonicSignature == <<2, 32, 224, 4>>

DaikinSignature == <<17, 218, 39, 0>>

MitsubishiElectricSignature == <<35, 203, 38, 1>>

HitachiSignature == <<1, 16, 0>>

PanasonicLength == 19

DaikinLength == 19

MitsubishiElectricLength == 18

HitachiLength == 14

IsPanasonicHvac(bytes) == Len(bytes) = PanasonicLength /\ HasPrefix(bytes, PanasonicSignature)

IsDaikinHvac(bytes) == Len(bytes) = DaikinLength /\ HasPrefix(bytes, DaikinSignature)

IsMitsubishiElectricHvac(bytes) ==
    Len(bytes) = MitsubishiElectricLength /\ HasPrefix(bytes, MitsubishiElectricSignature)

IsHitachiHvac(bytes) == Len(bytes) = HitachiLength /\ HasPrefix(bytes, HitachiSignature)

\* enum-coded fields map to labels through fixed tables; unrecognised codes
\* map to the fallback label
ModeLabel(code) ==
    CASE code = 0 -> "auto" [] code = 2 -> "dry" [] code = 3 -> "cool"
      [] code = 4 -> "heat" [] code = 6 -> "fan" [] OTHER -> "unknown"

FanLabel(code) ==
    CASE code = 3 -> "1" [] code = 4 -> "2" [] code = 5 -> "3"
      [] code = 10 -> "auto" [] OTHER -> "unknown"

SwingLabel(code) ==
    CASE code = 0 -> "off" [] code = 15 -> "auto" [] OTHER -> "unknown"

ProfileLabel(code) ==
    CASE code = 0 -> "normal" [] code = 1 -> "powerful" [] code = 32 -> "quiet"
      [] OTHER -> "unknown"

\* the ControlCode records carry the fields types.ts declares
PanasonicHvac(bytes) ==
    [PanasonicHvac |-> [temperature |-> 16 + ((bytes[7] \div 2) % 16),
                mode |-> ModeLabel(bytes[6] \div 16),
                switch |-> bytes[6] % 2 = 1,
                swing |-> SwingLabel(bytes[9] % 16),
                fan |-> FanLabel(bytes[9] \div 16),
                profile |-> ProfileLabel(bytes[14]),
                checksum |-> TransmittedChecksum(bytes)]]

DaikinHvac(bytes) ==
    [DaikinHvac |-> [temperature |-> bytes[7] \div 2,
                mode |-> ModeLabel((bytes[6] \div 16) % 8),
                on_timer |-> (bytes[6] \div 2) % 2 = 1,
                on_timer_duration_hour |-> (bytes[11] + 256 * (bytes[12] % 8)) \div 60,
                off_timer |-> (bytes[6] \div 4) % 2 = 1,
                off_timer_duration_hour |-> ((bytes[12] \div 16) + 16 * (bytes[13] % 128)) \div 60,
                switch |-> bytes[6] % 2 = 1,
                swing |-> SwingLabel(bytes[9] % 16),
                fan |-> FanLabel(bytes[9] \div 16),
                checksum |-> TransmittedChecksum(bytes)]]

HitachiHvac(bytes) ==
    [HitachiHvac |-> [temperature |-> bytes[12] \div 4,
                mode |-> ModeLabel(bytes[11] % 16),
                fan |-> FanLabel(bytes[11] \div 16),
                switch |-> (bytes[13] \div 16) % 2 = 1]]

MitsubishiElectricHvac(bytes) ==
    [MitsubishiElectricHvac |-> [temperature |-> 16 + (bytes[8] % 16),
                mode1 |-> ModeLabel((bytes[7] \div 8) % 8),
                switch |-> (bytes[6] \div 32) % 2 = 1,
                checksum |-> TransmittedChecksum(bytes)]]

\* the Sony code: command and address, as decimal strings
SircCode(fields) ==
    [Sirc |-> [command |-> ToString(BitsValue(fields.command, 1)),
               device |-> ToString(BitsValue(fields.address, 1))]]

FrameBytes(decoded) == MapSeq(ValueOf(decoded).octets, ByteLsb)

\* one DecodedFrame => one ControlCode; Unknown carries the original frame
InterpretFrame(decoded) ==
    IF TagOf(decoded) \in {"Sirc12", "Sirc15", "Sirc20"} THEN SircCode(ValueOf(decoded))
    ELSE IF TagOf(decoded) # "Aeha" THEN Unknown(<<decoded>>)
    ELSE LET bytes == FrameBytes(decoded) IN
         IF IsPanasonicHvac(bytes) THEN PanasonicHvac(bytes)
         ELSE IF IsDaikinHvac(bytes) THEN DaikinHvac(bytes)
         ELSE IF IsHitachiHvac(bytes) THEN HitachiHvac(bytes)
         ELSE IF IsMitsubishiElectricHvac(bytes) THEN MitsubishiElectricHvac(bytes)
         ELSE Unknown(<<decoded>>)

wasm_decode_phase4(decoded_frames) == MapSeq(decoded_frames, InterpretFrame)

ChecksumBearing == {"PanasonicHvac", "DaikinHvac", "MitsubishiElectricHvac"}

----------------------------------------------------------------------------
(* The combined pipeline of the wasm package: wasm_decord_receiving_data    *)
(* and wasm_decord_ir_frames.  A DecordedInfraredRemoteFrame is            *)
(* { Aeha | Nec | Sirc : Uint8Array } or { Unknown }: the frame's data bits *)
(* under its protocol tag.                                                 *)

DecordedFrame(decoded) ==
    IF TagOf(decoded) = "Aeha" THEN [Aeha |-> Concat(ValueOf(decoded).octets)]
    ELSE IF TagOf(decoded) = "Nec"
    THEN [Nec |-> ValueOf(decoded).custom0 \o ValueOf(decoded).custom1
                    \o ValueOf(decoded).data0 \o ValueOf(decoded).data1]
    ELSE IF TagOf(decoded) \in {"Sirc12", "Sirc15"}
    THEN [Sirc |-> ValueOf(decoded).command \o ValueOf(decoded).address]
    ELSE IF TagOf(decoded) = "Sirc20"
    THEN [Sirc |-> ValueOf(decoded).command \o ValueOf(decoded).address \o ValueOf(decoded).extended]
    ELSE Unknown(ValueOf(decoded))

DecordFrame(frame) == DecordedFrame(wasm_decode_phase3(wasm_decode_phase2(frame)))

wasm_decord_receiving_data(pairs) == MapSeq(wasm_decode_phase1(pairs), DecordFrame)

\* the structured record of a DecordedInfraredRemoteFrame
StructuredFrame(decorded) ==
    IF TagOf(decorded) = "Aeha"
    THEN [Aeha |-> [octets |-> PaddedOctets(ValueOf(decorded)), stop |-> 1]]
    ELSE IF TagOf(decorded) = "Sirc" THEN DecodeSirc(ValueOf(decorded))
    ELSE Unknown(ValueOf(decorded))

InterpretDecordedFrame(decorded) ==
    LET code == InterpretFrame(StructuredFrame(decorded)) IN
    IF TagOf(code) = "Unknown" THEN Unknown(<<decorded>>) ELSE code

wasm_decord_ir_frames(decorded_frames) == MapSeq(decorded_frames, InterpretDecordedFrame)

----------------------------------------------------------------------------
(* Views.  Japanese captions are written in Latin letters.                 *)

\* IrDecodedFrame.tsx: the protocol label and the bit fields of a frame
IrDecodedFrame_ir_frame_value(decorded_frame) ==
    IF "Aeha" \in DOMAIN decorded_frame
    THEN [frame_label |-> "AEHA",
          items |-> [index \in 1..Len(decorded_frame.Aeha.octets) |->
                        [item_label |-> "offset " \o ToString(8 * (index - 1)),
                         value |-> decorded_frame.Aeha.octets[index]]]]
    ELSE IF "Nec" \in DOMAIN decorded_frame
    THEN [frame_label |-> "NEC",
          items |-> <<[item_label |-> "custom0", value |-> decorded_frame.Nec.custom0],
                      [item_label |-> "custom1", value |-> decorded_frame.Nec.custom1],
                      [item_label |-> "data0", value |-> decorded_frame.Nec.data0],
                      [item_label |-> "data1", value |-> decorded_frame.Nec.data1]>>]
    ELSE IF "Sirc12" \in DOMAIN decorded_frame
    THEN [frame_label |-> "SIRC12",
          items |-> <<[item_label |-> "command", value |-> decorded_frame.Sirc12.command],
                      [item_label |-> "address", value |-> decorded_frame.Sirc12.address]>>]
    ELSE IF "Sirc15" \in DOMAIN decorded_frame
    THEN [frame_label |-> "SIRC15",
          items |-> <<[item_label |-> "command", value |-> decorded_frame.Sirc15.command],
                      [item_label |-> "address", value |-> decorded_frame.Sirc15.address]>>]
    ELSE IF "Sirc20" \in DOMAIN decorded_frame
    THEN [frame_label |-> "SIRC20",
          items |-> <<[item_label |-> "command", value |-> decorded_frame.Sirc20.command],
                      [item_label |-> "address", value |-> decorded_frame.Sirc20.address],
                      [item_label |-> "extended", value |-> decorded_frame.Sirc20.extended]>>]
    ELSE IF "Unknown" \in DOMAIN decorded_frame
    THEN [frame_label |-> "UNKNOWN", items |-> <<>>]
    ELSE [frame_label |-> "throw", items |-> <<>>]

\* a grouping that keeps whole octets only
to_octets_whole_only(bitstream) ==
    [k \in 1..(Len(bitstream) \div 8) |-> Slice(bitstream, 8 * (k - 1), 8 * k)]

\* IrDecordedFrame.tsx: the bitstream in groups of eight, the last one short
to_octets(bitstream) ==
    [k \in 1..((Len(bitstream) + 7) \div 8) |-> Slice(bitstream, 8 * (k - 1), 8 * k)]

HexDigits ==
    <<"0", "1", "2", "3", "4", "5", "6", "7", "8", "9", "a", "b", "c", "d", "e", "f">>

RECURSIVE HexText(_)
\* Number.prototype.toString(16)
HexText(n) ==
    IF n < 16 THEN HexDigits[n + 1] ELSE HexText(n \div 16) \o HexDigits[(n % 16) + 1]

\* String.prototype.padStart(2, '0') of a hexadecimal numeral
PadStart2(n) == IF n < 16 THEN "0" \o HexText(n) ELSE HexText(n)

RECURSIVE ReduceBits(_, _)
\* xs.reduce((acc, x) => 2 * acc + x, acc)
ReduceBits(xs, acc) ==
    IF xs = <<>> THEN acc ELSE ReduceBits(Tail(xs), 2 * acc + Head(xs))

\* a conversion that reverses the array it is given, not a copy of it
to_hex_string_reversing_in_place(msb_first, octets) ==
    LET xs == IF msb_first THEN octets ELSE Reverse(octets) IN
    [hex |-> PadStart2(ReduceBits(xs, 0)), octets |-> xs]

\* IrDecordedFrame.tsx: the hexadecimal numeral of a bit group, and the
\* group as the call leaves it (slice() copies before reverse() reverses)
to_hex_string(msb_first, octets) ==
    LET xs == IF msb_first THEN octets ELSE Reverse(octets) IN
    [hex |-> PadStart2(ReduceBits(xs, 0)), octets |-> octets]

\* IrDecordedFrame.tsx: the label and the bit fields of a flat frame
ir_frame_value(decorded_frame) ==
    IF "Aeha" \in DOMAIN decorded_frame
    THEN LET octets == to_octets(decorded_frame.Aeha) IN
         [frame_label |-> "AEHA",
          items |-> [index \in 1..Len(octets) |->
                        [item_label |-> "offset " \o ToString(8 * (index - 1)),
                         value |-> octets[index]]]]
    ELSE IF "Nec" \in DOMAIN decorded_frame
    THEN [frame_label |-> "NEC",
          items |-> <<[item_label |-> "Address", value |-> Slice(decorded_frame.Nec, 0, 8)],
                      [item_label |-> "(Logical Inverse) Address",
                       value |-> Slice(decorded_frame.Nec, 8, 16)],
                      [item_label |-> "Command", value |-> Slice(decorded_frame.Nec, 16, 24)],
                      [item_label |-> "(Logical Inverse) Command",
                       value |-> Slice(decorded_frame.Nec, 24, 32)]>>]
    ELSE IF "Sirc" \in DOMAIN decorded_frame
    THEN [frame_label |-> "SIRC",
          items |-> <<[item_label |-> "command", value |-> Slice(decorded_frame.Sirc, 0, 5)],
                      [item_label |-> "address",
                       value |-> Slice(decorded_frame.Sirc, 5, Len(decorded_frame.Sirc))]>>]
    ELSE IF "Unknown" \in DOMAIN decorded_frame
    THEN [frame_label |-> "UNKNOWN", items |-> <<>>]
    ELSE [frame_label |-> "throw", items |-> <<>>]

\* IrDecordedFrame.tsx: what the component shows for one frame: the title
\* with the numerals of the items, the protocol label, and per item its
\* label, its bits (join) and its numeral; to_hex_string is called on an
\* item for the title first and for the item's own numeral afterwards
IrDecordedFrame(props) ==
    LET value == ir_frame_value(props.decorded_frame)
        titled == [k \in 1..Len(value.items) |->
                      to_hex_string(props.msb_first, value.items[k].value)]
    IN [title |-> "Frame# " \o ToString(1 + props.index),
        hexes |-> [k \in 1..Len(value.items) |-> titled[k].hex],
        protocol |-> value.frame_label,
        items |-> [k \in 1..Len(value.items) |->
                      [label |-> value.items[k].item_label,
                       bits |-> titled[k].octets,
                       hex |-> to_hex_string(props.msb_first, titled[k].octets).hex]]]

OnOff(switch) == IF switch THEN "ON" ELSE "OFF"

\* Boolean.prototype.toString()
BooleanText(b) == IF b THEN "true" ELSE "false"

\* a view written before the HitachiHvac code was added to the union
display_ir_code_without_hitachi(ir_code) ==
    IF "Sirc" \in DOMAIN ir_code
    THEN <<[label |-> "manufacturer", value |-> "Sony"],
           [label |-> "device", value |-> ir_code.Sirc.device],
           [label |-> "command", value |-> ir_code.Sirc.command]>>
    ELSE IF "PanasonicHvac" \in DOMAIN ir_code
    THEN <<[label |-> "manufacturer", value |-> "Panasonic"],
           [label |-> "device", value |-> "air conditioner"],
           [label |-> "ondo", value |-> ToString(ir_code.PanasonicHvac.temperature)],
           [label |-> "mode", value |-> ir_code.PanasonicHvac.mode],
           [label |-> "dengen", value |-> OnOff(ir_code.PanasonicHvac.switch)],
           [label |-> "swing", value |-> ir_code.PanasonicHvac.swing],
           [label |-> "fuuryou", value |-> ir_code.PanasonicHvac.fan],
           [label |-> "checksum", value |-> ToString(ir_code.PanasonicHvac.checksum)]>>
    ELSE IF "DaikinHvac" \in DOMAIN ir_code
    THEN <<[label |-> "manufacturer", value |-> "Daikin"],
           [label |-> "device", value |-> "air conditioner"],
           [label |-> "ondo", value |-> ToString(ir_code.DaikinHvac.temperature)],
           [label |-> "mode", value |-> ir_code.DaikinHvac.mode],
           [label |-> "on timer", value |-> BooleanText(ir_code.DaikinHvac.on_timer)],
           [label |-> "on keizoku jikan",
            value |-> ToString(ir_code.DaikinHvac.on_timer_duration_hour)],
           [label |-> "off timer", value |-> BooleanText(ir_code.DaikinHvac.off_timer)],
           [label |-> "off keizoku jikan",
            value |-> ToString(ir_code.DaikinHvac.off_timer_duration_hour)],
           [label |-> "dengen", value |-> OnOff(ir_code.DaikinHvac.switch)],
           [label |-> "swing", value |-> ir_code.DaikinHvac.swing],
           [label |-> "fuuryou", value |-> ir_code.DaikinHvac.fan],
           [label |-> "checksum", value |-> ToString(ir_code.DaikinHvac.checksum)]>>
    ELSE IF "MitsubishiElectricHvac" \in DOMAIN ir_code
    THEN <<[label |-> "manufacturer", value |-> "Mitsubishi Electric"],
           [label |-> "device", value |-> "air conditioner"],
           [label |-> "ondo", value |-> ToString(ir_code.MitsubishiElectricHvac.temperature)],
           [label |-> "mode1", value |-> ir_code.MitsubishiElectricHvac.mode1],
           [label |-> "dengen", value |-> OnOff(ir_code.MitsubishiElectricHvac.switch)],
           [label |-> "checksum", value |-> ToString(ir_code.MitsubishiElectricHvac.checksum)]>>
    ELSE IF "Unknown" \in DOMAIN ir_code
    THEN <<[label |-> "manufacturer", value |-> "fumei"],
           [label |-> "device", value |-> "fumei"]>>
    ELSE <<[label |-> "throw", value |-> "unimplemented"]>>

\* IrControlCode.tsx: the rows of one control code
display_ir_code(ir_code) ==
    IF "Sirc" \in DOMAIN ir_code
    THEN <<[label |-> "manufacturer", value |-> "Sony"],
           [label |-> "device", value |-> ir_code.Sirc.device],
           [label |-> "command", value |-> ir_code.Sirc.command]>>
    ELSE IF "PanasonicHvac" \in DOMAIN ir_code
    THEN <<[label |-> "manufacturer", value |-> "Panasonic"],
           [label |-> "device", value |-> "air conditioner"],
           [label |-> "ondo", value |-> ToString(ir_code.PanasonicHvac.temperature)],
           [label |-> "mode", value |-> ir_code.PanasonicHvac.mode],
           [label |-> "dengen", value |-> OnOff(ir_code.PanasonicHvac.switch)],
           [label |-> "swing", value |-> ir_code.PanasonicHvac.swing],
           [label |-> "fuuryou", value |-> ir_code.PanasonicHvac.fan],
           [label |-> "checksum", value |-> ToString(ir_code.PanasonicHvac.checksum)]>>
    ELSE IF "DaikinHvac" \in DOMAIN ir_code
    THEN <<[label |-> "manufacturer", value |-> "Daikin"],
           [label |-> "device", value |-> "air conditioner"],
           [label |-> "ondo", value |-> ToString(ir_code.DaikinHvac.temperature)],
           [label |-> "mode", value |-> ir_code.DaikinHvac.mode],
           [label |-> "on timer", value |-> BooleanText(ir_code.DaikinHvac.on_timer)],
           [label |-> "on keizoku jikan",
            value |-> ToString(ir_code.DaikinHvac.on_timer_duration_hour)],
           [label |-> "off timer", value |-> BooleanText(ir_code.DaikinHvac.off_timer)],
           [label |-> "off keizoku jikan",
            value |-> ToString(ir_code.DaikinHvac.off_timer_duration_hour)],
           [label |-> "dengen", value |-> OnOff(ir_code.DaikinHvac.switch)],
           [label |-> "swing", value |-> ir_code.DaikinHvac.swing],
           [label |-> "fuuryou", value |-> ir_code.DaikinHvac.fan],
           [label |-> "checksum", value |-> ToString(ir_code.DaikinHvac.checksum)]>>
    ELSE IF "HitachiHvac" \in DOMAIN ir_code
    THEN <<[label |-> "manufacturer", value |-> "Hitachi"],
           [label |-> "device", value |-> "air conditioner"],
           [label |-> "ondo", value |-> ToString(ir_code.HitachiHvac.temperature)],
           [label |-> "mode", value |-> ir_code.HitachiHvac.mode],
           [label |-> "dengen", value |-> OnOff(ir_code.HitachiHvac.switch)],
           [label |-> "fuuryou", value |-> ir_code.HitachiHvac.fan]>>
    ELSE IF "MitsubishiElectricHvac" \in DOMAIN ir_code
    THEN <<[label |-> "manufacturer", value |-> "Mitsubishi Electric"],
           [label |-> "device", value |-> "air conditioner"],
           [label |-> "ondo", value |-> ToString(ir_code.MitsubishiElectricHvac.temperature)],
           [label |-> "mode1", value |-> ir_code.MitsubishiElectricHvac.mode1],
           [label |-> "dengen", value |-> OnOff(ir_code.MitsubishiElectricHvac.switch)],
           [label |-> "checksum", value |-> ToString(ir_code.MitsubishiElectricHvac.checksum)]>>
    ELSE IF "Unknown" \in DOMAIN ir_code
    THEN <<[label |-> "manufacturer", value |-> "fumei"],
           [label |-> "device", value |-> "fumei"]>>
    ELSE <<[label |-> "throw", value |-> "unimplemented"]>>

\* a card list that shows a retransmitted code once
IrControlCodeCollapsing(ir_control_codes) ==
    LET kept == SelectSeq([i \in 1..Len(ir_control_codes) |-> i],
                          LAMBDA i : i = 1 \/ ir_control_codes[i] # ir_control_codes[i - 1])
    IN [k \in 1..Len(kept) |->
           [title |-> "Frame# " \o ToString(k), items |-> display_ir_code(ir_control_codes[kept[k]])]]

\* IrControlCode.tsx: one titled card per control code, in order (the index
\* passed by map is zero-based)
display_remocon_code(index, ir_code) ==
    [title |-> "Frame# " \o ToString(1 + index), items |-> display_ir_code(ir_code)]

IrControlCode(ir_control_codes) ==
    [idx \in 1..Len(ir_control_codes) |-> display_remocon_code(idx - 1, ir_control_codes[idx])]

----------------------------------------------------------------------------
(* React: a handler or an effect replaces the state object; the next       *)
(* render closes over it and runs, in declaration order, the effects one   *)
(* of whose dependencies changed (strings by value, arrays by identity).   *)

Settled == todo = <<>> /\ fresh = {} /\ rendered = state /\ seen_rx = rxJsonData

\* the array fields of a state object
ArrayFields(st) ==
    {f \in DOMAIN st : f \in {"ir_mark_and_spaces", "ir_splitted_frames",
                              "ir_demodulated_frames", "ir_decoded_frames",
                              "ir_control_codes"}}

\* fields of `next` that differ from the rendered state, when `next` is
\* built from the state object `init` (its arrays are init's own objects)
ChangedByInit(init) ==
    {f \in ArrayFields(init) : f \notin init_arrays}
        \cup (IF init.input_text # state.input_text THEN {"input_text"} ELSE {})

EffectsOf(order, deps, changed) ==
    SelectSeq(order, LAMBDA e : deps[e] \in changed)

AlertSuccess == [type |-> "success", message |-> "good"]

AlertError(msg) == [type |-> "error", message |-> msg]

----------------------------------------------------------------------------
(* InfraredRemoteAnalyzer *)

initState ==
    [msb_first |-> FALSE,
     ir_mark_and_spaces |-> <<>>,
     ir_decoded_frames |-> <<>>,
     ir_control_codes |-> <<>>,
     input_text |-> <<>>,
     confirmed_rx_json_data_length |-> 0,
     automatically_paste |-> FALSE,
     alert |-> [type |-> "info", message |-> "please input"]]

\* the effects of the decode chain, in declaration order, and the state
\* field each depends on
AnalyzerEffects == <<"arrival", "parse", "decode", "interpret">>

\* the arrival effect depends on rxJsonData.length and on the state object
\* itself, one of which is new in every render
AnalyzerDeps ==
    [arrival |-> "state", parse |-> "input_text", decode |-> "ir_mark_and_spaces",
     interpret |-> "ir_decoded_frames"]

\* an arrival effect that counts the record it expects next as confirmed
ArrivalUpdateCountingAhead(closure, rx, prev) ==
    IF Len(rx) # closure.confirmed_rx_json_data_length
    THEN LET newone == closure.confirmed_rx_json_data_length
             confirmed == [prev EXCEPT !.confirmed_rx_json_data_length = Len(rx) + 1]
         IN IF closure.automatically_paste
            THEN [confirmed EXCEPT !.input_text = JSON_stringify(rx[newone + 1].rawData)]
            ELSE confirmed
    ELSE prev

\* useEffect(..., [rxJsonData.length, state]): the state its two updaters
\* leave; the record pasted is the one at the confirmed length
ArrivalUpdate(closure, rx, prev) ==
    IF Len(rx) # closure.confirmed_rx_json_data_length
    THEN LET newone == closure.confirmed_rx_json_data_length
             confirmed == [prev EXCEPT !.confirmed_rx_json_data_length = Len(rx)]
         IN IF closure.automatically_paste
            THEN [confirmed EXCEPT !.input_text = JSON_stringify(rx[newone + 1].rawData)]
            ELSE confirmed
    ELSE prev

\* a parse effect whose catch branch keeps the pairs of the previous input
ParseUpdateKeepingPairs(closure, prev) ==
    IF Len(closure.input_text) # 0
    THEN LET parsed == wasm_parse_infrared_code(closure.input_text) IN
         IF parsed.ok
         THEN [prev EXCEPT !.ir_mark_and_spaces = parsed.value, !.alert = AlertSuccess]
         ELSE [prev EXCEPT !.alert = AlertError(parsed.error)]
    ELSE [prev EXCEPT !.ir_mark_and_spaces = <<>>]

\* a parse effect whose catch branch clears the pairs and reports nothing
ParseUpdateSwallowingError(closure, prev) ==
    IF Len(closure.input_text) # 0
    THEN LET parsed == wasm_parse_infrared_code(closure.input_text) IN
         IF parsed.ok
         THEN [prev EXCEPT !.ir_mark_and_spaces = parsed.value, !.alert = AlertSuccess]
         ELSE [prev EXCEPT !.ir_mark_and_spaces = <<>>]
    ELSE [prev EXCEPT !.ir_mark_and_spaces = <<>>]

\* useEffect(..., [state.input_text]): the updater it queues
ParseUpdate(closure, prev) ==
    IF Len(closure.input_text) # 0
    THEN LET parsed == wasm_parse_infrared_code(closure.input_text) IN
         IF parsed.ok
         THEN [prev EXCEPT !.ir_mark_and_spaces = parsed.value, !.alert = AlertSuccess]
         ELSE [prev EXCEPT !.ir_mark_and_spaces = <<>>, !.alert = AlertError(parsed.error)]
    ELSE [prev EXCEPT !.ir_mark_and_spaces = <<>>]

\* a decode effect that leaves the frames alone when there are no pairs
DecodeUpdateKeepingFrames(closure, prev) ==
    IF Len(closure.ir_mark_and_spaces) # 0
    THEN [prev EXCEPT !.ir_decoded_frames = wasm_decord_receiving_data(closure.ir_mark_and_spaces),
                      !.alert = AlertSuccess]
    ELSE prev

\* useEffect(..., [state.ir_mark_and_spaces])
DecodeUpdate(closure, prev) ==
    IF Len(closure.ir_mark_and_spaces) # 0
    THEN [prev EXCEPT !.ir_decoded_frames = wasm_decord_receiving_data(closure.ir_mark_and_spaces),
                      !.alert = AlertSuccess]
    ELSE [prev EXCEPT !.ir_decoded_frames = <<>>]

\* an interpret effect that reports a frame it cannot interpret as an error
InterpretUpdateAlertingUnknown(closure, prev) ==
    IF Len(closure.ir_decoded_frames) # 0
    THEN LET codes == wasm_decord_ir_frames(closure.ir_decoded_frames) IN
         [prev EXCEPT !.ir_control_codes = codes,
                      !.alert = IF \E i \in 1..Len(codes) : "Unknown" \in DOMAIN codes[i]
                                THEN AlertError("Unknown") ELSE AlertSuccess]
    ELSE [prev EXCEPT !.ir_control_codes = <<>>]

\* useEffect(..., [state.ir_decoded_frames])
InterpretUpdate(closure, prev) ==
    IF Len(closure.ir_decoded_frames) # 0
    THEN [prev EXCEPT !.ir_control_codes = wasm_decord_ir_frames(closure.ir_decoded_frames),
                      !.alert = AlertSuccess]
    ELSE [prev EXCEPT !.ir_control_codes = <<>>]

RunEffect(name, next, field) ==
    /\ todo # <<>>
    /\ Head(todo) = name
    /\ state' = next
    /\ fresh' = fresh \cup {field}
    /\ init_arrays' = init_arrays \ {field}
    /\ todo' = Tail(todo)
    /\ UNCHANGED <<rendered, stage_in, stage_out, rxJsonData, seen_rx, uiVars, serialVars>>

ArrivalEffect ==
    /\ todo # <<>>
    /\ Head(todo) = "arrival"
    /\ state' = ArrivalUpdate(rendered, seen_rx, state)
    /\ fresh' = IF state'.input_text # state.input_text THEN fresh \cup {"input_text"} ELSE fresh
    /\ todo' = Tail(todo)
    /\ message_rx_length' = IF Len(seen_rx) # rendered.confirmed_rx_json_data_length
                            THEN Len(seen_rx) ELSE message_rx_length
    /\ UNCHANGED <<rendered, init_arrays, stage_in, stage_out, rxJsonData, seen_rx,
                   switch_checked, serialVars>>

ParseEffect == RunEffect("parse", ParseUpdate(rendered, state), "ir_mark_and_spaces")

DecodeEffect == RunEffect("decode", DecodeUpdate(rendered, state), "ir_decoded_frames")

InterpretEffect == RunEffect("interpret", InterpretUpdate(rendered, state), "ir_control_codes")

\* the render that follows a state change
Render ==
    /\ todo = <<>>
    /\ (fresh # {} \/ rendered # state \/ seen_rx # rxJsonData)
    /\ rendered' = state
    /\ seen_rx' = rxJsonData
    /\ todo' = EffectsOf(AnalyzerEffects, AnalyzerDeps, fresh \cup {"state"})
    /\ fresh' = {}
    /\ UNCHANGED <<state, init_arrays, stage_in, stage_out, rxJsonData, uiVars, serialVars>>

handleReset ==
    /\ Settled
    /\ state' = initState
    /\ fresh' = ChangedByInit(initState)
    /\ init_arrays' = ArrayFields(initState)
    /\ UNCHANGED <<rendered, todo, stage_in, stage_out, rxJsonData, seen_rx, uiVars, serialVars>>

SetInputText(text) ==
    /\ state' = [state EXCEPT !.input_text = text]
    /\ fresh' = IF text # state.input_text THEN {"input_text"} ELSE {}
    /\ UNCHANGED <<rendered, init_arrays, todo, stage_in, stage_out, rxJsonData, seen_rx, uiVars, serialVars>>

\* TextArea onChange
handleParse(input_text) ==
    /\ Settled
    /\ IF input_text # <<>> THEN SetInputText(input_text) ELSE handleReset

\* the bound on the number of records received from the device
MaxRecords == 2

\* Table onRow onClick: the row's rawData is pasted into the text area
RowClick(index) ==
    /\ Settled
    /\ SetInputText(JSON_stringify(rxJsonData[index].rawData))

\* the auto-paste Switch: it is given no checked prop, so a click flips what
\* the Switch itself shows and onChange receives the new value
SwitchAutomaticallyPaste(checked) ==
    /\ Settled
    /\ checked = ~switch_checked
    /\ switch_checked' = checked
    /\ state' = [state EXCEPT !.automatically_paste = checked]
    /\ UNCHANGED <<rendered, fresh, init_arrays, todo, stage_in, stage_out, rxJsonData, seen_rx,
                   message_rx_length, serialVars>>

\* SerialConnectionEffect: a line of JSON read from the serial port is
\* appended to the atom (between two commits: the effects of one commit run
\* to completion).  Each append is one run of the rxText effect, and the
\* next one needs another read to complete, a poll interval later: the
\* render the atom's change has queued comes first.
Receive(rawData) ==
    /\ todo = <<>>
    /\ seen_rx = rxJsonData
    /\ Len(rxJsonData) < MaxRecords
    /\ rxJsonData' = Append(rxJsonData, [rawData |-> rawData])
    /\ UNCHANGED <<state, rendered, fresh, init_arrays, todo, stage_in, stage_out, seen_rx, uiVars, serialVars>>

\* the bit-order Switch
SwitchBitOrder(checked) ==
    /\ Settled
    /\ state' = [state EXCEPT !.msb_first = checked]
    /\ UNCHANGED <<rendered, fresh, init_arrays, todo, stage_in, stage_out, rxJsonData, seen_rx, uiVars, serialVars>>

----------------------------------------------------------------------------
(* Captures used as inputs *)

\* the bound on the number of frames in one generated capture
MaxFrames == 3


\* n bits of a number, least significant first
RECURSIVE ShiftRight(_, _)
ShiftRight(n, k) == IF k = 0 THEN n ELSE ShiftRight(n \div 2, k - 1)

BitsOf(n, width) == [i \in 1..width |-> ShiftRight(n, i - 1) % 2]

BytesBits(bytes) == Concat([k \in 1..Len(bytes) |-> BitsOf(bytes[k], 8)])

\* SIRC: leader 4T/1T, then one pair per bit; the last space is the gap
SircPairs(bits, gap) ==
    <<[mark |-> 4 * SircT, space |-> SircT]>>
        \o [i \in 1..Len(bits) |->
               [mark |-> (1 + bits[i]) * SircT, space |-> IF i = Len(bits) THEN gap ELSE SircT]]

\* AEHA (8T/4T) and NEC (16T/8T): leader, one pair per bit, the trailer
DistancePairs(T, units, bits, gap) ==
    <<[mark |-> units * T, space |-> (units \div 2) * T]>>
        \o [i \in 1..Len(bits) |-> [mark |-> T, space |-> (1 + 2 * bits[i]) * T]]
        \o <<[mark |-> T, space |-> gap]>>

AehaPairs(bits, gap) == DistancePairs(AehaT, 8, bits, gap)

NecPairs(bits, gap) == DistancePairs(NecT, 16, bits, gap)

\* the gap between two transmissions of one capture
TransmissionGap == 10 * 1000

Numbers(pairs) ==
    [i \in 1..(2 * Len(pairs)) |->
        IF i % 2 = 1 THEN pairs[(i + 1) \div 2].mark ELSE pairs[i \div 2].space]

WithChecksum(bytes) == Append(bytes, SumFrom(bytes, 1, Len(bytes)) % 256)

MitsubishiElectricPayload ==
    WithChecksum(<<35, 203, 38, 1, 0, 32, 24, 9, 54, 64, 0, 0, 0, 0, 0, 0, 0>>)

PanasonicPayload ==
    WithChecksum(<<2, 32, 224, 4, 0, 49, 52, 128, 175, 0, 0, 6, 96, 0, 0, 128, 0, 6>>)

DaikinPayload ==
    WithChecksum(<<17, 218, 39, 0, 0, 49, 50, 0, 175, 0, 120, 6, 96, 0, 0, 193, 128, 0>>)

HitachiPayload == <<1, 16, 0, 64, 191, 255, 0, 204, 51, 146, 67, 100, 241, 14>>

SircCapture == SircPairs(BitsOf(21 + 128 * 1, 12), 0)

GarbledCapture == <<[mark |-> 100, space |-> 100], [mark |-> 600, space |-> 0]>>

SircText == JSON_stringify(Numbers(SircCapture))

TwoFrameText ==
    JoinNumbers(Numbers(SircPairs(BitsOf(21 + 128 * 1, 12), TransmissionGap) \o GarbledCapture))

MitsubishiElectricText ==
    JoinNumbers(Numbers(AehaPairs(BytesBits(MitsubishiElectricPayload), 0)))

NecText == JoinNumbers(Numbers(NecPairs(BitsOf(255 * 256, 32), 0)))

\* the rawData of the records the device sends: a SIRC transmission (the
\* last mark has no space after it) and noise
RawDatas ==
    { SubSeq(Numbers(SircCapture), 1, 2 * Len(SircCapture) - 1),
      <<100, 100, 600>> }

\* texts the grammar of the parser rejects
MalformedTexts ==
    { <<"a", "b", "c", ",", "1", "2", "3">>,
      <<"-", "5", ",", "1", "0">>,
      <<" ">>,
      <<"[", "]">>,
      <<"1", ",", ",", "2">>,
      <<"1", "2", ",">> }

\* texts of numbers, one of them above the upper bound
OutOfRangeTexts ==
    { <<"1", "0", "0", "0", "0", "0", "1", ",", "5">>,
      <<"5", ",", "9", "9", "9", "9", "9", "9", "9", "9", "9", "9", "9", "9">> }

\* texts of numbers within the bound
WellFormedTexts ==
    { SircText, TwoFrameText, MitsubishiElectricText, NecText,
      <<"1", "0", "0", "0", "0", "0", "0", ",", "5">>,
      <<"6", "0", "0">>,
      <<" ", "[", "2", "4", "0", "0", " ", ",", " ", "6", "0", "0", "]", " ">> }

\* the texts typed into the text area: one the grammar rejects, one out of
\* range, two well-formed (the texts pasted from records are bracketed)
AnalyzerTexts ==
    { <<" ">>,
      <<"1", "0", "0", "0", "0", "0", "1", ",", "5">>,
      TwoFrameText, MitsubishiElectricText }

----------------------------------------------------------------------------
(* Specification of InfraredRemoteAnalyzer *)

NoStage == [stage |-> "none"]

Init ==
    /\ state = initState
    /\ rendered = initState
    /\ fresh = {}
    /\ init_arrays = ArrayFields(initState)
    /\ todo = AnalyzerEffects
    /\ stage_in = NoStage
    /\ stage_out = NoStage
    /\ rxJsonData = <<>>
    /\ seen_rx = <<>>
    /\ UiInit
    /\ SerialInit

Next ==
    \/ Render
    \/ ParseEffect
    \/ DecodeEffect
    \/ InterpretEffect
    \/ handleReset
    \/ \E text \in AnalyzerTexts \cup {<<>>} : handleParse(text)
    \/ \E checked \in BOOLEAN : SwitchBitOrder(checked)
    \/ ArrivalEffect
    \/ \E index \in 1..Len(rxJsonData) : RowClick(index)
    \/ \E checked \in BOOLEAN : SwitchAutomaticallyPaste(checked)
    \/ \E rawData \in RawDatas : Receive(rawData)

Spec == Init /\ [][Next]_vars

----------------------------------------------------------------------------
(* The four-phase App (App.tsx): parse, split, demodulate, decode and      *)
(* interpret, one effect each.                                             *)

App_initState ==
    [msb_first |-> FALSE,
     ir_mark_and_spaces |-> <<>>,
     ir_splitted_frames |-> <<>>,
     ir_demodulated_frames |-> <<>>,
     ir_decoded_frames |-> <<>>,
     ir_control_codes |-> <<>>,
     input_text |-> <<>>,
     alert |-> [type |-> "info", message |-> "please input"]]

AppEffects == <<"parse", "phase1", "phase2", "phase3", "phase4">>

AppDeps ==
    [parse |-> "input_text", phase1 |-> "ir_mark_and_spaces", phase2 |-> "ir_splitted_frames",
     phase3 |-> "ir_demodulated_frames", phase4 |-> "ir_decoded_frames"]

\* useEffect(..., [state.input_text]): an empty text replaces the state by
\* initState; a rejected text changes the alert only
App_ParseEffect ==
    /\ todo # <<>>
    /\ Head(todo) = "parse"
    /\ IF Len(rendered.input_text) = 0
       THEN /\ state' = App_initState
            /\ fresh' = fresh \cup ChangedByInit(App_initState)
            /\ init_arrays' = ArrayFields(App_initState)
       ELSE LET parsed == wasm_parse_infrared_code(rendered.input_text) IN
            IF parsed.ok
            THEN /\ state' = [state EXCEPT !.ir_mark_and_spaces = parsed.value,
                                           !.alert = AlertSuccess]
                 /\ fresh' = fresh \cup {"ir_mark_and_spaces"}
                 /\ init_arrays' = init_arrays \ {"ir_mark_and_spaces"}
            ELSE /\ state' = [state EXCEPT !.alert = AlertError(parsed.error)]
                 /\ UNCHANGED <<fresh, init_arrays>>
    /\ todo' = Tail(todo)
    /\ UNCHANGED <<rendered, stage_in, stage_out, rxJsonData, seen_rx, uiVars, serialVars>>

\* a split effect that loses the frame the end of the input closes
Phase1UpdateDroppingTail(closure, prev) ==
    IF Len(closure.ir_mark_and_spaces) = 0
    THEN [prev EXCEPT !.ir_splitted_frames = <<>>]
    ELSE LET frames == wasm_decode_phase1(closure.ir_mark_and_spaces) IN
         [prev EXCEPT !.ir_splitted_frames =
                          IF frames[Len(frames)][Len(frames[Len(frames)])].space > FrameGapMicros
                          THEN frames ELSE SubSeq(frames, 1, Len(frames) - 1),
                      !.alert = AlertSuccess]

\* useEffect(..., [state.ir_mark_and_spaces])
Phase1Update(closure, prev) ==
    IF Len(closure.ir_mark_and_spaces) = 0
    THEN [prev EXCEPT !.ir_splitted_frames = <<>>]
    ELSE [prev EXCEPT !.ir_splitted_frames = wasm_decode_phase1(closure.ir_mark_and_spaces),
                      !.alert = AlertSuccess]

\* a demodulate effect that gives up on the capture at an unclassified frame
Phase2UpdateGivingUp(closure, prev) ==
    IF Len(closure.ir_splitted_frames) = 0
    THEN [prev EXCEPT !.ir_demodulated_frames = <<>>]
    ELSE LET demodulated == MapSeq(closure.ir_splitted_frames, wasm_decode_phase2) IN
         IF \E i \in 1..Len(demodulated) : TagOf(demodulated[i]) = "Unknown"
         THEN [prev EXCEPT !.ir_demodulated_frames = <<>>, !.alert = AlertError("Unknown")]
         ELSE [prev EXCEPT !.ir_demodulated_frames = demodulated, !.alert = AlertSuccess]

\* useEffect(..., [state.ir_splitted_frames])
Phase2Update(closure, prev) ==
    IF Len(closure.ir_splitted_frames) = 0
    THEN [prev EXCEPT !.ir_demodulated_frames = <<>>]
    ELSE [prev EXCEPT !.ir_demodulated_frames = MapSeq(closure.ir_splitted_frames, wasm_decode_phase2),
                      !.alert = AlertSuccess]

\* useEffect(..., [state.ir_demodulated_frames])
Phase3Update(closure, prev) ==
    IF Len(closure.ir_demodulated_frames) = 0
    THEN [prev EXCEPT !.ir_decoded_frames = <<>>]
    ELSE [prev EXCEPT !.ir_decoded_frames = MapSeq(closure.ir_demodulated_frames, wasm_decode_phase3),
                      !.alert = AlertSuccess]

\* useEffect(..., [state.ir_decoded_frames])
Phase4Update(closure, prev) ==
    IF Len(closure.ir_decoded_frames) = 0
    THEN [prev EXCEPT !.ir_control_codes = <<>>]
    ELSE [prev EXCEPT !.ir_control_codes = wasm_decode_phase4(closure.ir_decoded_frames),
                      !.alert = AlertSuccess]

Phase1Effect == RunEffect("phase1", Phase1Update(rendered, state), "ir_splitted_frames")

Phase2Effect == RunEffect("phase2", Phase2Update(rendered, state), "ir_demodulated_frames")

Phase3Effect == RunEffect("phase3", Phase3Update(rendered, state), "ir_decoded_frames")

Phase4Effect == RunEffect("phase4", Phase4Update(rendered, state), "ir_control_codes")

App_Render ==
    /\ todo = <<>>
    /\ (fresh # {} \/ rendered # state)
    /\ rendered' = state
    /\ todo' = EffectsOf(AppEffects, AppDeps, fresh)
    /\ fresh' = {}
    /\ UNCHANGED <<state, init_arrays, stage_in, stage_out, rxJsonData, seen_rx, uiVars, serialVars>>

\* Reset button
App_handleReset ==
    /\ Settled
    /\ state' = App_initState
    /\ fresh' = ChangedByInit(App_initState)
    /\ init_arrays' = ArrayFields(App_initState)
    /\ UNCHANGED <<rendered, todo, stage_in, stage_out, rxJsonData, seen_rx, uiVars, serialVars>>

\* TextArea onChange: handleReset(), then setState({...state, input_text});
\* the object built from the rendered state is the update that stays
App_handleParse(input_text) ==
    /\ Settled
    /\ state' = [rendered EXCEPT !.input_text = input_text]
    /\ fresh' = IF input_text # rendered.input_text THEN {"input_text"} ELSE {}
    /\ UNCHANGED <<rendered, init_arrays, todo, stage_in, stage_out, rxJsonData, seen_rx, uiVars, serialVars>>

\* Radio.Group onChange: the radio's value (0 or 1) is kept for its truth
App_SelectBitOrder(value) ==
    /\ Settled
    /\ state' = [rendered EXCEPT !.msb_first = (value = 1)]
    /\ UNCHANGED <<rendered, fresh, init_arrays, todo, stage_in, stage_out, rxJsonData, seen_rx, uiVars, serialVars>>

\* the frames a capture is assembled from: two that decode, three garbled
\* (no leader of any protocol, a pulse out of bucket, a wrong bit count)
GarbledKinds == {"noleader", "outofbucket", "sirc13"}

GoodKind(i) == IF i % 2 = 1 THEN "sirc12" ELSE "aeha8"

FramePairs(kind, gap) ==
    CASE kind = "sirc12" -> SircPairs(BitsOf(21 + 128 * 1, 12), gap)
      [] kind = "aeha8" -> AehaPairs(BitsOf(165, 8), gap)
      [] kind = "noleader" -> <<[mark |-> 100, space |-> 100], [mark |-> 600, space |-> gap]>>
      [] kind = "outofbucket" ->
            [SircPairs(BitsOf(21 + 128 * 1, 12), gap) EXCEPT ![5] = [mark |-> 5000, space |-> SircT]]
      [] kind = "sirc13" -> SircPairs(BitsOf(21 + 128 * 1, 13), gap)

\* a capture: its transmissions, each but the last followed by the gap
Capture(kinds) ==
    Concat([i \in 1..Len(kinds) |->
               FramePairs(kinds[i], IF i = Len(kinds) THEN 0 ELSE TransmissionGap)])

\* captures of up to MaxFrames transmissions, at most one of them garbled
CaptureKinds ==
    UNION {{[i \in 1..n |-> IF i = g THEN kind ELSE GoodKind(i)] :
               g \in 0..n, kind \in GarbledKinds} : n \in 1..MaxFrames}

AppTexts ==
    {JoinNumbers(Numbers(Capture(kinds))) : kinds \in CaptureKinds}
        \cup {<<>>, <<"a", "b", "c", ",", "1", "2", "3">>,
              <<"6", "0", "0", ",", "1", "0", "0", "0", "0">>,
              <<"6", "0", "0", ",", "9", "0", "0", "0", ",", "6", "0", "0", ",", "9", "0", "0", "0">>,
              <<"6", "0", "0", ",", "8", "0", "0", "0", ",", "6", "0", "0">>}

AppInit ==
    /\ state = App_initState
    /\ rendered = App_initState
    /\ fresh = {}
    /\ init_arrays = ArrayFields(App_initState)
    /\ todo = AppEffects
    /\ stage_in = NoStage
    /\ stage_out = NoStage
    /\ rxJsonData = <<>>
    /\ seen_rx = <<>>
    /\ UiInit
    /\ SerialInit

AppNext ==
    \/ App_Render
    \/ App_ParseEffect
    \/ Phase1Effect
    \/ Phase2Effect
    \/ Phase3Effect
    \/ Phase4Effect
    \/ App_handleReset
    \/ \E text \in AppTexts : App_handleParse(text)
    \/ \E value \in {0, 1} : App_SelectBitOrder(value)

SpecApp == AppInit /\ [][AppNext]_vars

----------------------------------------------------------------------------
(* The stages one at a time: each is handed one input and returns once.    *)

\* the longest bitstream handed to the decoder
MaxBits == 34

\* the longest frame list handed to the interpreter
MaxCodes == 3

\* the longest number list handed to the parser
MaxNumbers == 4

\* durations of a number list: none, short, a pulse, the longest plausible
\* one and one beyond it
Durations == {0, 9, SircT, MaxDurationMicros, MaxDurationMicros + 1}

\* leaders: inside one protocol's windows, inside two, inside none
Leaders ==
    [aeha |-> [mark |-> 8 * AehaT, space |-> 4 * AehaT],
     nec |-> [mark |-> 16 * NecT, space |-> 8 * NecT],
     sirc |-> [mark |-> 4 * SircT, space |-> SircT],
     aeha_nec |-> [mark |-> 4800, space |-> 2400],
     aeha_sirc |-> [mark |-> 2400, space |-> 880],
     none |-> [mark |-> 100, space |-> 100]]

\* the pulses after the leader
Bodies ==
    [distance |-> Tail(AehaPairs(<<1, 0, 1, 1>>, 0)),
     distance_nec |-> Tail(NecPairs(<<1, 0, 1, 1>>, 0)),
     width |-> Tail(SircPairs(<<1, 0, 1, 1>>, 0)),
     wild |-> <<[mark |-> AehaT, space |-> AehaT], [mark |-> 5000, space |-> 5000],
               [mark |-> AehaT, space |-> 0]>>,
     empty |-> <<>>]

\* a NEC transmission of n data bits: address, its inverse, command, its
\* inverse (or not its inverse), cut or padded to n bits, and the stop bit
NecBits(n, consistent) ==
    LET word == BitsOf(89, 8) \o BitsOf(IF consistent THEN 255 - 89 ELSE 89, 8)
                    \o BitsOf(18, 8) \o BitsOf(IF consistent THEN 255 - 18 ELSE 19, 8)
    IN [i \in 1..(n + 1) |-> IF i = n + 1 THEN 1 ELSE IF i <= 32 THEN word[i] ELSE 0]

SircBits(n, ones) == [i \in 1..n |-> IF ones THEN i % 2 ELSE 0]

\* the longest bitstream handed to the frame view
MaxViewBits == 21

\* bitstreams of n bits: alternating, all zero, and the start of a NEC word
ViewBits(n) ==
    {SircBits(n, TRUE), SircBits(n, FALSE), [i \in 1..n |-> BitsOf(89 + 256 * 18, 16)[((i - 1) % 16) + 1]]}

\* the bytes of a payload with one bit of one octet flipped
FlipBit(bytes, octet, bit) ==
    [bytes EXCEPT ![octet] =
        IF ShiftRight(bytes[octet], bit) % 2 = 1
        THEN bytes[octet] - ShiftRight(256, 8 - bit)
        ELSE bytes[octet] + ShiftRight(256, 8 - bit)]

AehaFrame(bytes) == DecodeAeha(Append(BytesBits(bytes), 1))

HvacPayloads ==
    [PanasonicHvac |-> PanasonicPayload, DaikinHvac |-> DaikinPayload,
     MitsubishiElectricHvac |-> MitsubishiElectricPayload]

\* decoded frames the interpreter is handed
DecodedFrames ==
    [mitsubishi |-> AehaFrame(MitsubishiElectricPayload),
     panasonic |-> AehaFrame(PanasonicPayload),
     daikin |-> AehaFrame(DaikinPayload),
     hitachi |-> AehaFrame(HitachiPayload),
     badsum |-> AehaFrame([PanasonicPayload EXCEPT ![19] = (@ + 1) % 256]),
     other |-> AehaFrame(<<165, 90>>),
     sirc |-> DecodeSirc(SircBits(12, TRUE)),
     nec |-> DecodeNec(NecBits(32, TRUE)),
     unknown |-> Unknown(<<>>)]

FrameNames == DOMAIN DecodedFrames

StageInit ==
    /\ state = initState
    /\ rendered = initState
    /\ fresh = {}
    /\ init_arrays = {}
    /\ todo = <<>>
    /\ stage_out = NoStage
    /\ rxJsonData = <<>>
    /\ seen_rx = <<>>
    /\ UiInit
    /\ SerialInit
    /\ \/ \E n \in 0..MaxNumbers : \E rawData \in [1..n -> Durations], json \in BOOLEAN :
             stage_in = [stage |-> "parse", rawData |-> rawData, json |-> json]
       \/ \E n \in 0..MaxViewBits, msb_first \in BOOLEAN, tag \in {"Aeha", "Nec", "Sirc"} :
             \E bits \in ViewBits(n) :
                stage_in = [stage |-> "view", msb_first |-> msb_first,
                            decorded_frame |-> Tagged(tag, bits)]
       \/ \E msb_first \in BOOLEAN :
             stage_in = [stage |-> "view", msb_first |-> msb_first,
                         decorded_frame |-> Unknown(<<Leaders.none>>)]
       \/ \E leader \in DOMAIN Leaders, body \in DOMAIN Bodies :
             stage_in = [stage |-> "phase2", leader |-> leader, body |-> body,
                         frame |-> <<Leaders[leader]>> \o Bodies[body]]
       \/ \E n \in 0..MaxBits, ones \in BOOLEAN :
             stage_in = [stage |-> "phase3", demodulated |-> [Sirc |-> SircBits(n, ones)]]
       \/ \E n \in 0..MaxBits, consistent \in BOOLEAN :
             stage_in = [stage |-> "phase3", demodulated |-> [Nec |-> NecBits(n, consistent)]]
       \/ \E n \in 0..MaxBits :
             stage_in = [stage |-> "phase3", demodulated |-> [Aeha |-> NecBits(n, TRUE)]]
       \/ stage_in = [stage |-> "phase3", demodulated |-> Unknown(<<Leaders.none>>)]
       \/ \E n \in 0..MaxCodes : \E names \in [1..n -> FrameNames] :
             stage_in = [stage |-> "phase4", octet |-> 0, bit |-> 0,
                         frames |-> [i \in 1..n |-> DecodedFrames[names[i]]]]
       \/ \E vendor \in DOMAIN HvacPayloads :
             \E octet \in 1..Len(HvacPayloads[vendor]), bit \in 0..7 :
                stage_in = [stage |-> "phase4", octet |-> octet, bit |-> bit,
                            frames |-> <<AehaFrame(HvacPayloads[vendor]),
                                         AehaFrame(FlipBit(HvacPayloads[vendor], octet, bit))>>]

\* one call of the parser on the text of a number list: JSON.stringify of
\* a record's rawData, or the list's toString()
Parse ==
    /\ stage_in.stage = "parse"
    /\ stage_out = NoStage
    /\ LET text == IF stage_in.json THEN JSON_stringify(stage_in.rawData)
                   ELSE JoinNumbers(stage_in.rawData)
       IN stage_out' = [stage |-> "parse", text |-> text,
                        parsed |-> wasm_parse_infrared_code(text)]
    /\ UNCHANGED <<state, rendered, fresh, init_arrays, todo, stage_in, rxJsonData, seen_rx, uiVars, serialVars>>

\* one call of the demodulator
Demodulate ==
    /\ stage_in.stage = "phase2"
    /\ stage_out = NoStage
    /\ stage_out' = [stage |-> "phase2", demodulated |-> wasm_decode_phase2(stage_in.frame)]
    /\ UNCHANGED <<state, rendered, fresh, init_arrays, todo, stage_in, rxJsonData, seen_rx, uiVars, serialVars>>

\* one call of the decoder, and the two frame views of what it returns
Decode ==
    /\ stage_in.stage = "phase3"
    /\ stage_out = NoStage
    /\ LET decoded == wasm_decode_phase3(stage_in.demodulated) IN
       stage_out' = [stage |-> "phase3",
                     decoded |-> decoded,
                     view |-> IrDecodedFrame_ir_frame_value(decoded),
                     flat_view |-> ir_frame_value(DecordedFrame(decoded))]
    /\ UNCHANGED <<state, rendered, fresh, init_arrays, todo, stage_in, rxJsonData, seen_rx, uiVars, serialVars>>

\* one call of the interpreter, and the cards IrControlCode shows for it
Interpret ==
    /\ stage_in.stage = "phase4"
    /\ stage_out = NoStage
    /\ LET codes == wasm_decode_phase4(stage_in.frames) IN
       stage_out' = [stage |-> "phase4", codes |-> codes, cards |-> IrControlCode(codes)]
    /\ UNCHANGED <<state, rendered, fresh, init_arrays, todo, stage_in, rxJsonData, seen_rx, uiVars, serialVars>>

\* one render of IrDecordedFrame
View ==
    /\ stage_in.stage = "view"
    /\ stage_out = NoStage
    /\ stage_out' = [stage |-> "view",
                     shown |-> IrDecordedFrame([msb_first |-> stage_in.msb_first, index |-> 0,
                                                decorded_frame |-> stage_in.decorded_frame])]
    /\ UNCHANGED <<state, rendered, fresh, init_arrays, todo, stage_in, rxJsonData, seen_rx, uiVars, serialVars>>

StageNext == Parse \/ Demodulate \/ Decode \/ Interpret \/ View

SpecStage == StageInit /\ [][StageNext]_vars

----------------------------------------------------------------------------
(* SerialConnectionEffect: the serial port, the receive loop and the       *)
(* receive buffer.  A reader is named by the number of the open that made  *)
(* it; a timer and a read are named by the reader their loop closed over   *)
(* (0: the loop of a render without a port).  Two pending timers of        *)
(* renders without a port count as one: neither ever reads.                *)

\* JSON.parse, for the texts a line of the device can be cut into: a number
\* (a digit run without a leading zero), a string without escapes, an array
\* of numbers, and an object with one member whose value is one of these.
\* Everything else throws.
JSON_isNumber(t) == IsNumericToken(t) /\ (Len(t) = 1 \/ t[1] # "0")

JSON_isString(t) ==
    /\ Len(t) >= 2
    /\ t[1] = "\""
    /\ t[Len(t)] = "\""
    /\ \A i \in 2..(Len(t) - 1) : t[i] \notin {"\"", "\\"}

JSON_isArray(t) ==
    /\ Len(t) >= 2
    /\ t[1] = "["
    /\ t[Len(t)] = "]"
    /\ \/ Len(t) = 2
       \/ LET items == SplitOnComma(SubSeq(t, 2, Len(t) - 1)) IN
          \A i \in 1..Len(items) : JSON_isNumber(items[i])

\* the value of a number, a string or an array of numbers
JSON_value(t) ==
    IF JSON_isNumber(t) THEN [Num |-> TokenValue(t)]
    ELSE IF JSON_isString(t) THEN [Str |-> SubSeq(t, 2, Len(t) - 1)]
    ELSE LET items == SplitOnComma(SubSeq(t, 2, Len(t) - 1)) IN
         [Arr |-> IF Len(t) = 2 THEN <<>> ELSE [i \in 1..Len(items) |-> TokenValue(items[i])]]

\* an object { "rawData": [...] } is the record [rawData |-> ...]; an
\* object with another member is kept by its member's key
JSON_parse(t) ==
    IF JSON_isNumber(t) \/ JSON_isString(t) \/ JSON_isArray(t)
    THEN [ok |-> TRUE, value |-> JSON_value(t)]
    ELSE IF Len(t) >= 2 /\ t[1] = "{" /\ t[Len(t)] = "}"
    THEN LET inner == SubSeq(t, 2, Len(t) - 1)
             colons == SelectSeq([i \in 1..Len(inner) |-> i], LAMBDA i : inner[i] = ":")
         IN IF inner = <<>> THEN [ok |-> TRUE, value |-> [Obj |-> <<>>]]
            ELSE IF colons = <<>> THEN [ok |-> FALSE]
            ELSE LET key == SubSeq(inner, 1, colons[1] - 1)
                     member == SubSeq(inner, colons[1] + 1, Len(inner))
                 IN IF JSON_isString(key)
                       /\ (JSON_isNumber(member) \/ JSON_isString(member) \/ JSON_isArray(member))
                    THEN [ok |-> TRUE,
                          value |-> IF key = <<"\"", "r", "a", "w", "D", "a", "t", "a", "\"">>
                                       /\ JSON_isArray(member)
                                    THEN [rawData |-> JSON_value(member).Arr]
                                    ELSE [Obj |-> key]]
                    ELSE [ok |-> FALSE]
    ELSE [ok |-> FALSE]

\* rxText.split(/\r?\n/)
SplitLines(text) ==
    LET ends == SelectSeq([i \in 1..Len(text) |-> i], LAMBDA i : text[i] = "\n") IN
    [k \in 1..(Len(ends) + 1) |->
        LET first == IF k = 1 THEN 1 ELSE ends[k - 1] + 1
            last == IF k > Len(ends) THEN Len(text) ELSE ends[k] - 1
        IN IF k <= Len(ends) /\ last >= first /\ text[last] = "\r"
           THEN SubSeq(text, first, last - 1)
           ELSE SubSeq(text, first, last)]

\* lines.slice(-2)[0]: the line before the last piece, or the only piece
CandidateLine(text) ==
    LET lines == SplitLines(text) IN
    IF Len(lines) >= 2 THEN lines[Len(lines) - 1] ELSE lines[1]

\* an rxText effect that empties the buffer whatever the line was
RxTextUpdateClearingAlways(text, records) ==
    LET last == CandidateLine(text) IN
    IF last # <<>> /\ JSON_parse(last).ok
    THEN [rxText |-> <<>>, rxJsonData |-> Append(records, JSON_parse(last).value)]
    ELSE [rxText |-> <<>>, rxJsonData |-> records]

\* an rxText effect that keeps only the record it has just read
RxTextUpdateReplacing(text, records) ==
    LET last == CandidateLine(text) IN
    IF last # <<>> /\ JSON_parse(last).ok
    THEN [rxText |-> <<>>, rxJsonData |-> <<JSON_parse(last).value>>]
    ELSE [rxText |-> text, rxJsonData |-> records]

\* useEffect(..., [rxText]): what it leaves in the two atoms.  JSON.parse
\* throwing is caught and changes nothing.
RxTextUpdate(text, records) ==
    LET last == CandidateLine(text) IN
    IF last # <<>> /\ JSON_parse(last).ok
    THEN [rxText |-> <<>>, rxJsonData |-> Append(records, JSON_parse(last).value)]
    ELSE [rxText |-> text, rxJsonData |-> records]

\* the device on port A sends one line of JSON per record
MaxLines == 2

DeviceRecords == [k \in 1..MaxLines |-> [rawData |-> <<k>>]]

RecordText(rec) ==
    <<"{", "\"", "r", "a", "w", "D", "a", "t", "a", "\"", ":">>
        \o JSON_stringify(rec.rawData) \o <<"}">>

DeviceText == Concat([k \in 1..MaxLines |-> RecordText(DeviceRecords[k]) \o <<"\n">>])

LineLength == Len(RecordText(DeviceRecords[1])) + 1

\* where a read may end within a line: before the number, after the line end
CutOffsets == {12, LineLength}

ChunkEnds == {LineLength * (k - 1) + d : k \in 1..MaxLines, d \in CutOffsets}

UsedReaders == Cardinality({r \in 1..MaxOpens : readers[r] # "unused"})

\* function callToTimeoutLoop: setTimeout for the loop of reader r
callToTimeoutLoop(pending, r) == [timers |-> pending \cup {r}, timeoutRef |-> r]

\* the Settings Switch, off: handleOpenSerialPort starts, the user picks
\* port p in the chooser ("none": dismisses it) and port.open() is called
handleOpenSerialPort(p) ==
    /\ serialPort = NoPort
    /\ UsedReaders + Len(opening) < MaxOpens
    /\ opening' = Append(opening, p)
    /\ UNCHANGED <<rxText, seen_text, serialPort, seen_port, timeoutRef, timers, reads,
                   ports, readers, closing_ports, present, wire>>
    /\ UNCHANGED <<state, rendered, fresh, init_arrays, todo, stage_in, stage_out,
                   rxJsonData, seen_rx, uiVars>>

\* openSerialPort settles: port.open() rejects when the chooser was
\* dismissed, the device is gone or the port is not closed; otherwise the
\* port is open, getReader() locks its readable and the atom is set
OpenSettles ==
    /\ opening # <<>>
    /\ LET p == Head(opening)
           r == UsedReaders + 1
       IN IF p = "none" \/ p \notin present \/ ports[p].open \/ p \in closing_ports
          THEN /\ serialPort' = NoPort
               /\ UNCHANGED <<ports, readers>>
          ELSE /\ ports' = [ports EXCEPT ![p] = [open |-> TRUE, reader |-> r]]
               /\ readers' = [readers EXCEPT ![r] = "active"]
               /\ serialPort' = [port |-> p, reader |-> r]
    /\ opening' = Tail(opening)
    /\ UNCHANGED <<rxText, seen_text, seen_port, timeoutRef, timers, reads,
                   closing_ports, present, wire>>
    /\ UNCHANGED <<state, rendered, fresh, init_arrays, todo, stage_in, stage_out,
                   rxJsonData, seen_rx, uiVars>>

\* the Settings Switch, on: clearTimeout, then the updater releases the
\* reader's lock (a read pending on it is rejected and its loop ends) and
\* starts port.close()
handleCloseSerialPort ==
    /\ serialPort # NoPort
    /\ timers' = timers \ {timeoutRef}
    /\ timeoutRef' = NoTimer
    /\ readers' = [readers EXCEPT ![serialPort.reader] = "released"]
    /\ reads' = reads \ {serialPort.reader}
    /\ ports' = [ports EXCEPT ![serialPort.port].reader = 0]
    /\ closing_ports' = closing_ports \cup {serialPort.port}
    /\ serialPort' = NoPort
    /\ UNCHANGED <<rxText, seen_text, seen_port, opening, present, wire>>
    /\ UNCHANGED <<state, rendered, fresh, init_arrays, todo, stage_in, stage_out,
                   rxJsonData, seen_rx, uiVars>>

\* await prev.port.close() returns
CloseSettles(p) ==
    /\ p \in closing_ports
    /\ closing_ports' = closing_ports \ {p}
    /\ ports' = [ports EXCEPT ![p].open = FALSE]
    /\ UNCHANGED <<rxText, seen_text, serialPort, seen_port, timeoutRef, timers, reads,
                   readers, opening, present, wire>>
    /\ UNCHANGED <<state, rendered, fresh, init_arrays, todo, stage_in, stage_out,
                   rxJsonData, seen_rx, uiVars>>

\* navigator.serial 'disconnect': device p is unplugged.  The browser
\* fails p's stream (a read pending on it is rejected) and drops its
\* connection; the handler clears the atom, whichever device it was.
handleDisconnectEvent(p) ==
    /\ p \in present
    /\ present' = present \ {p}
    /\ serialPort' = NoPort
    /\ IF ports[p].reader # 0
       THEN /\ readers' = [readers EXCEPT ![ports[p].reader] = "errored"]
            /\ reads' = reads \ {ports[p].reader}
       ELSE UNCHANGED <<readers, reads>>
    /\ ports' = [ports EXCEPT ![p] = [open |-> FALSE, reader |-> 0]]
    /\ closing_ports' = closing_ports \ {p}
    /\ UNCHANGED <<rxText, seen_text, seen_port, timeoutRef, timers, opening, wire>>
    /\ UNCHANGED <<state, rendered, fresh, init_arrays, todo, stage_in, stage_out,
                   rxJsonData, seen_rx, uiVars>>

\* navigator.serial 'connect': device p is plugged in; the handler only logs
handleConnectEvent(p) ==
    /\ p \notin present
    /\ present' = present \cup {p}
    /\ UNCHANGED <<rxText, seen_text, serialPort, seen_port, timeoutRef, timers, reads,
                   ports, readers, opening, closing_ports, wire>>
    /\ UNCHANGED <<state, rendered, fresh, init_arrays, todo, stage_in, stage_out,
                   rxJsonData, seen_rx, uiVars>>

\* the Settings button: the handler of the last commit resets the device
\* over the port it closed over and then empties the receive buffer
handleSoftwareResetSerialPort ==
    /\ seen_port # NoPort
    /\ ports[seen_port.port].open
    /\ rxText' = <<>>
    /\ UNCHANGED <<seen_text, serialPort, seen_port, timeoutRef, timers, reads,
                   ports, readers, opening, closing_ports, present, wire>>
    /\ UNCHANGED <<state, rendered, fresh, init_arrays, todo, stage_in, stage_out,
                   rxJsonData, seen_rx, uiVars>>

\* a render of SerialConnectionEffect and its effects: when
\* serialPort?.reader changed, the cleanup of callToTimeoutLoop and its
\* next run; when rxText changed, the rxText effect
Commit ==
    /\ (serialPort # seen_port \/ rxText # seen_text)
    /\ IF serialPort.reader # seen_port.reader
       THEN LET loop == callToTimeoutLoop(timers \ {timeoutRef}, serialPort.reader) IN
            /\ timers' = loop.timers
            /\ timeoutRef' = loop.timeoutRef
       ELSE UNCHANGED <<timers, timeoutRef>>
    /\ IF rxText # seen_text
       THEN LET after == RxTextUpdate(rxText, rxJsonData) IN
            /\ rxText' = after.rxText
            /\ rxJsonData' = after.rxJsonData
       ELSE UNCHANGED <<rxText, rxJsonData>>
    /\ seen_port' = serialPort
    /\ seen_text' = rxText
    /\ UNCHANGED <<serialPort, reads, ports, readers, opening, closing_ports, present, wire>>
    /\ UNCHANGED <<state, rendered, fresh, init_arrays, todo, stage_in, stage_out,
                   seen_rx, uiVars>>

\* the timer of loop r fires: handleReceiveSerialPort of that render.  No
\* port: the loop ends.  A released or failed reader rejects the read at
\* once and the loop ends.  Otherwise reader.read() is in flight.
TimeoutFires(r) ==
    /\ r \in timers
    /\ timers' = timers \ {r}
    /\ reads' = IF r # 0 /\ readers[r] \in {"active", "done"} THEN reads \cup {r} ELSE reads
    /\ UNCHANGED <<rxText, seen_text, serialPort, seen_port, timeoutRef,
                   ports, readers, opening, closing_ports, present, wire>>
    /\ UNCHANGED <<state, rendered, fresh, init_arrays, todo, stage_in, stage_out,
                   rxJsonData, seen_rx, uiVars>>

\* readSerialPort resolves with the characters up to chunkEnd: they are
\* appended to rxText and the loop arms its next timer
handleReceiveSerialPort(r, chunkEnd) ==
    /\ r \in reads
    /\ readers[r] = "active"
    /\ ports["A"].reader = r
    /\ chunkEnd > wire
    /\ rxText' = rxText \o SubSeq(DeviceText, wire + 1, chunkEnd)
    /\ wire' = chunkEnd
    /\ reads' = reads \ {r}
    /\ LET loop == callToTimeoutLoop(timers, r) IN
       /\ timers' = loop.timers
       /\ timeoutRef' = loop.timeoutRef
    /\ UNCHANGED <<seen_text, serialPort, seen_port, ports, readers, opening,
                   closing_ports, present>>
    /\ UNCHANGED <<state, rendered, fresh, init_arrays, todo, stage_in, stage_out,
                   rxJsonData, seen_rx, uiVars>>

\* readSerialPort resolves with done (the stream has ended, after the
\* device's last line): it returns undefined, handleReceiveSerialPort
\* returns true and the loop arms its next timer
ReadReportsDone(r) ==
    /\ r \in reads
    /\ wire = Len(DeviceText)
    /\ readers' = [readers EXCEPT ![r] = "done"]
    /\ reads' = reads \ {r}
    /\ LET loop == callToTimeoutLoop(timers, r) IN
       /\ timers' = loop.timers
       /\ timeoutRef' = loop.timeoutRef
    /\ UNCHANGED <<rxText, seen_text, serialPort, seen_port, ports, opening,
                   closing_ports, present, wire>>
    /\ UNCHANGED <<state, rendered, fresh, init_arrays, todo, stage_in, stage_out,
                   rxJsonData, seen_rx, uiVars>>

\* what the user does in the port chooser: picks the device that sends, or
\* dismisses the chooser
Choices == {"A", "none"}

SerialMount ==
    /\ state = initState
    /\ rendered = initState
    /\ fresh = {}
    /\ init_arrays = ArrayFields(initState)
    /\ todo = <<>>
    /\ stage_in = NoStage
    /\ stage_out = NoStage
    /\ rxJsonData = <<>>
    /\ seen_rx = <<>>
    /\ UiInit
    /\ SerialInit

SerialNext ==
    \/ \E p \in Choices : handleOpenSerialPort(p)
    \/ OpenSettles
    \/ handleCloseSerialPort
    \/ \E p \in Ports : CloseSettles(p)
    \/ \E p \in Ports : handleDisconnectEvent(p)
    \/ \E p \in Ports : handleConnectEvent(p)
    \/ handleSoftwareResetSerialPort
    \/ Commit
    \/ \E r \in 0..MaxOpens : TimeoutFires(r)
    \/ \E r \in 1..MaxOpens, chunkEnd \in ChunkEnds : handleReceiveSerialPort(r, chunkEnd)
    \/ \E r \in 1..MaxOpens : ReadReportsDone(r)

SpecSerial == SerialMount /\ [][SerialNext]_vars

----------------------------------------------------------------------------
(* Properties of InfraredRemoteAnalyzer (checked under Spec) *)

\* what one run of the whole pipeline makes of a text, and of nothing else
Pipeline(text) ==
    IF text = <<>> THEN <<>>
    ELSE LET parsed == wasm_parse_infrared_code(text) IN
         IF parsed.ok
         THEN wasm_decord_ir_frames(wasm_decord_receiving_data(parsed.value))
         ELSE <<>>

\* C9: the pipeline is deterministic and stateless across invocations: once
\* the effect chain has settled, the control codes on display are those of
\* one run of the pipeline on the current input text, whatever texts were
\* analyzed, reset or rejected before; so two runs on identical input, with
\* any other invocations in between, show identical ControlCode sequences.
C9_PipelineStateless ==
    Settled => state.ir_control_codes = Pipeline(state.input_text)

\* C9: a settled analysis of the Mitsubishi capture, made after the chain of
\* the mount (or of an earlier input) replaced every array of initState
C9_Witness ==
    /\ Settled
    /\ init_arrays = {}
    /\ state.input_text = MitsubishiElectricText
    /\ Len(state.ir_control_codes) = 1
    /\ TagOf(state.ir_control_codes[1]) = "MitsubishiElectricHvac"

----------------------------------------------------------------------------
(* Properties of the four-phase App (checked under SpecApp) *)

RemoveAt(s, g) == [i \in 1..(Len(s) - 1) |-> IF i < g THEN s[i] ELSE s[i + 1]]

\* the garbled transmissions, as the splitter cuts them out of a capture
GarbledFrames ==
    {FramePairs(kind, gap) : kind \in GarbledKinds, gap \in {0, TransmissionGap}}

\* C1: every stage after the parser is total: in a capture with a garbled
\* frame (unrecognised leader, out-of-bucket pulse or wrong bit count) that
\* frame alone decodes to Unknown, no stage raises an error, and every
\* other frame gets the demodulated and decoded result it gets when the
\* garbled frame is absent from the capture.
C1_StagesTotal ==
    Settled =>
        LET frames == state.ir_splitted_frames
            demodulated == state.ir_demodulated_frames
            decoded == state.ir_decoded_frames
        IN /\ Len(demodulated) = Len(frames)
           /\ Len(decoded) = Len(frames)
           /\ state.alert.type = "error" => ~wasm_parse_infrared_code(state.input_text).ok
           /\ \A g \in 1..Len(frames) :
                 frames[g] \in GarbledFrames =>
                    LET rest == wasm_decode_phase1(Concat(RemoveAt(frames, g)))
                    IN /\ TagOf(decoded[g]) = "Unknown"
                       /\ \A i \in 1..Len(frames) :
                             frames[i] \notin GarbledFrames => TagOf(decoded[i]) # "Unknown"
                       /\ RemoveAt(demodulated, g) = MapSeq(rest, wasm_decode_phase2)
                       /\ RemoveAt(decoded, g)
                             = MapSeq(MapSeq(rest, wasm_decode_phase2), wasm_decode_phase3)

\* C1: a settled capture of three frames whose middle frame has a pulse out
\* of bucket: it is Unknown between two decoded Sirc12 frames
C1_Witness ==
    /\ Settled
    /\ Len(state.ir_splitted_frames) = 3
    /\ state.ir_splitted_frames[2] = FramePairs("outofbucket", TransmissionGap)
    /\ Len(state.ir_decoded_frames) = 3
    /\ TagOf(state.ir_decoded_frames[1]) = "Sirc12"
    /\ TagOf(state.ir_decoded_frames[2]) = "Unknown"
    /\ TagOf(state.ir_decoded_frames[3]) = "Sirc12"

\* C2: the splitter partitions its input: the frames, concatenated in output
\* order, are the input pair sequence (nothing dropped, duplicated or
\* reordered; the frame the end of the input closes is emitted too), and no
\* frame is empty.
C2_SplitterPartitions ==
    Settled =>
        /\ Concat(state.ir_splitted_frames) = state.ir_mark_and_spaces
        /\ \A i \in 1..Len(state.ir_splitted_frames) : state.ir_splitted_frames[i] # <<>>

\* C2: two frames, the first closed by the 10 ms gap, the second by the end
\* of the input
C2_Witness ==
    /\ Settled
    /\ Len(state.ir_splitted_frames) = 2
    /\ state.ir_splitted_frames[1][Len(state.ir_splitted_frames[1])].space = TransmissionGap
    /\ state.ir_splitted_frames[2][Len(state.ir_splitted_frames[2])].space = 0
    /\ Len(state.ir_mark_and_spaces)
          = Len(state.ir_splitted_frames[1]) + Len(state.ir_splitted_frames[2])

----------------------------------------------------------------------------
(* Properties of the stages (checked under SpecStage) *)

\* frames that are Unknown or match no vendor layout
UnmatchedFrames == {DecodedFrames.other, DecodedFrames.nec, DecodedFrames.unknown}

\* C3: the interpreter maps n decoded frames to exactly n control codes, the
\* i-th code derived from the i-th frame alone: repeated frames are kept,
\* the order is the input's, a frame that is Unknown or matches no vendor
\* layout gives ControlCode.Unknown (carrying the frame) at its position, and
\* IrControlCode shows one card per code, titled by position.
C3_OneCodePerFrame ==
    stage_out.stage = "phase4" =>
        LET frames == stage_in.frames
            codes == stage_out.codes
            cards == stage_out.cards
        IN /\ Len(codes) = Len(frames)
           /\ Len(cards) = Len(frames)
           /\ \A i \in 1..Len(frames) :
                 /\ <<codes[i]>> = wasm_decode_phase4(<<frames[i]>>)
                 /\ frames[i] \in UnmatchedFrames => codes[i] = Unknown(<<frames[i]>>)
                 /\ frames[i] = DecodedFrames.sirc => TagOf(codes[i]) = "Sirc"
                 /\ frames[i] = DecodedFrames.mitsubishi => TagOf(codes[i]) = "MitsubishiElectricHvac"
                 /\ cards[i].title = "Frame# " \o ToString(i)
                 /\ cards[i].items = display_ir_code(codes[i])

\* C3: a frame transmitted twice, then an Unknown frame: three codes
C3_Witness ==
    /\ stage_out.stage = "phase4"
    /\ stage_in.frames
          = <<DecodedFrames.mitsubishi, DecodedFrames.mitsubishi, DecodedFrames.unknown>>
    /\ Len(stage_out.codes) = 3
    /\ stage_out.codes[1] = stage_out.codes[2]
    /\ TagOf(stage_out.codes[3]) = "Unknown"
    /\ Len(stage_out.cards) = 3

SircVariant(n) ==
    CASE n = 12 -> "Sirc12" [] n = 15 -> "Sirc15" [] n = 20 -> "Sirc20" [] OTHER -> "Unknown"

SircLabel(n) ==
    CASE n = 12 -> "SIRC12" [] n = 15 -> "SIRC15" [] n = 20 -> "SIRC20" [] OTHER -> "UNKNOWN"

\* C4: for a Sirc-tagged bitstream the decoder returns Sirc12 for 12 bits,
\* Sirc15 for 15, Sirc20 for 20 and Unknown for any other count: exactly one
\* variant, whose fields are the bits in order, and no error (the frame view
\* finds a variant it knows).
C4_SircVariants ==
    (stage_out.stage = "phase3" /\ "Sirc" \in DOMAIN stage_in.demodulated) =>
        LET bits == stage_in.demodulated.Sirc
            decoded == stage_out.decoded
            items == stage_out.view.items
        IN /\ Cardinality(DOMAIN decoded) = 1
           /\ TagOf(decoded) = SircVariant(Len(bits))
           /\ stage_out.view.frame_label = SircLabel(Len(bits))
           /\ TagOf(decoded) # "Unknown" =>
                 Concat([i \in 1..Len(items) |-> items[i].value]) = bits

\* C4: a bitstream of 15 bits decoded as Sirc15
C4_Witness ==
    /\ stage_out.stage = "phase3"
    /\ "Sirc" \in DOMAIN stage_in.demodulated
    /\ Len(stage_in.demodulated.Sirc) = 15
    /\ "Sirc15" \in DOMAIN stage_out.decoded
    /\ Len(stage_out.decoded.Sirc15.address) = 8

\* C5: for a Nec-tagged bitstream the decoder returns Nec exactly when it
\* has 32 data bits, whether or not the inverse octets are consistent; any
\* other count gives Unknown, never an error.  A Nec frame is shown as four
\* octets that are the 32 bits in order.
C5_NecExactly32 ==
    (stage_out.stage = "phase3" /\ "Nec" \in DOMAIN stage_in.demodulated) =>
        LET bits == stage_in.demodulated.Nec
            decoded == stage_out.decoded
            items == stage_out.flat_view.items
        IN /\ Cardinality(DOMAIN decoded) = 1
           /\ TagOf(decoded) = IF Len(bits) - 1 = 32 THEN "Nec" ELSE "Unknown"
           /\ stage_out.view.frame_label = IF Len(bits) - 1 = 32 THEN "NEC" ELSE "UNKNOWN"
           /\ Len(bits) - 1 = 32 =>
                 /\ Len(items) = 4
                 /\ \A i \in 1..4 : Len(items[i].value) = 8
                 /\ Concat([i \in 1..4 |-> items[i].value]) = SubSeq(bits, 1, 32)

\* C5: 32 bits whose second octet is not the inverse of the first, decoded
\* as Nec
C5_Witness ==
    /\ stage_out.stage = "phase3"
    /\ "Nec" \in DOMAIN stage_in.demodulated
    /\ "Nec" \in DOMAIN stage_out.decoded
    /\ stage_out.decoded.Nec.custom0 = stage_out.decoded.Nec.custom1
    /\ stage_out.decoded.Nec.custom0 = BitsOf(89, 8)

\* the protocol whose leader windows a leader meets first, in priority order
FirstProtocol ==
    [aeha |-> "Aeha", nec |-> "Nec", sirc |-> "Sirc",
     aeha_nec |-> "Aeha", aeha_sirc |-> "Aeha", none |-> "Unknown"]

\* the bodies whose every pulse is inside a bucket of the protocol
CleanBodies ==
    [Aeha |-> {"distance", "distance_nec", "empty"},
     Nec |-> {"distance", "distance_nec", "empty"},
     Sirc |-> {"width", "empty"},
     Unknown |-> {}]

\* C6: classification takes the first of AEHA, NEC, SIRC whose leader
\* windows hold the frame's leader (a leader inside two windows goes to the
\* earlier protocol), a leader inside no window gives Unknown, and a
\* classified frame with a later pulse out of bucket is Unknown: it is not
\* retried under the next protocol.
C6_FixedPriority ==
    stage_out.stage = "phase2" =>
        LET first == FirstProtocol[stage_in.leader]
            result == stage_out.demodulated
        IN /\ IsAehaLeader(stage_in.frame[1]) <=> stage_in.leader \in {"aeha", "aeha_nec", "aeha_sirc"}
           /\ IsNecLeader(stage_in.frame[1]) <=> stage_in.leader \in {"nec", "aeha_nec"}
           /\ IsSircLeader(stage_in.frame[1]) <=> stage_in.leader \in {"sirc", "aeha_sirc"}
           /\ IF stage_in.body \in CleanBodies[first]
              THEN TagOf(result) = first
              ELSE result = Unknown(stage_in.frame)

\* C6: a leader inside the AEHA and the SIRC windows, followed by pulses
\* that are SIRC pulses and not AEHA pulses: Unknown
C6_Witness ==
    /\ stage_out.stage = "phase2"
    /\ stage_in.leader = "aeha_sirc"
    /\ stage_in.body = "width"
    /\ IsSircLeader(stage_in.frame[1])
    /\ TagOf(stage_out.demodulated) = "Unknown"

\* C7 (as claimed): flipping one bit outside the checksum octet of a payload
\* with a valid checksum, the checksum octet unchanged, turns the reported
\* result into a mismatch: the code of the flipped payload is still the
\* vendor's code and differs from the code of the valid payload.
C7_MismatchReported ==
    (/\ stage_out.stage = "phase4"
     /\ stage_in.octet >= 1
     /\ stage_in.octet < Len(FrameBytes(stage_in.frames[1]))) =>
        /\ TagOf(stage_out.codes[2]) = TagOf(stage_out.codes[1])
        /\ stage_out.codes[2] # stage_out.codes[1]

\* C8 (as claimed): the card of every checksum-bearing control code shows
\* both the transmitted checksum octet and the recomputed checksum.
C8_CarriesBoth ==
    stage_out.stage = "phase4" =>
        \A i \in 1..Len(stage_out.codes) :
            TagOf(stage_out.codes[i]) \in ChecksumBearing =>
                LET bytes == FrameBytes(stage_in.frames[i])
                    items == stage_out.cards[i].items
                IN \E a, b \in 1..Len(items) :
                      /\ a # b
                      /\ items[a].value = ToString(TransmittedChecksum(bytes))
                      /\ items[b].value = ToString(RecomputedChecksum(bytes))

----------------------------------------------------------------------------
(* Properties of the parser (checked under SpecStage) *)

\* the durations of a number list are all ones the parser accepts
InRange(nums) == \A i \in 1..Len(nums) : nums[i] <= MaxDurationMicros

----------------------------------------------------------------------------
(* Properties of the control codes and their cards (checked under SpecStage) *)

ControlCodeTags ==
    {"Sirc", "PanasonicHvac", "DaikinHvac", "HitachiHvac", "MitsubishiElectricHvac", "Unknown"}

\* C13: every control code the interpreter returns carries exactly one tag,
\* and the tag is one of Sirc, PanasonicHvac, DaikinHvac, HitachiHvac,
\* MitsubishiElectricHvac, Unknown; display_ir_code has a branch for each,
\* so no card of a pipeline output comes from its 'unimplemented' branch.
C13_TagSetHandled ==
    stage_out.stage = "phase4" =>
        \A i \in 1..Len(stage_out.codes) :
            /\ Cardinality(DOMAIN stage_out.codes[i]) = 1
            /\ TagOf(stage_out.codes[i]) \in ControlCodeTags
            /\ \A k \in 1..Len(stage_out.cards[i].items) :
                   stage_out.cards[i].items[k].label # "throw"
            /\ stage_out.cards[i].items[1].label = "manufacturer"

\* C13: three frames interpreted as a Hitachi code, a Sirc code and Unknown,
\* each shown with the rows of its own branch
C13_Witness ==
    /\ stage_out.stage = "phase4"
    /\ Len(stage_out.codes) = 3
    /\ TagOf(stage_out.codes[1]) = "HitachiHvac"
    /\ TagOf(stage_out.codes[2]) = "Sirc"
    /\ TagOf(stage_out.codes[3]) = "Unknown"
    /\ Len(stage_out.cards[1].items) = 6
    /\ Len(stage_out.cards[2].items) = 3
    /\ Len(stage_out.cards[3].items) = 2

----------------------------------------------------------------------------
(* Unknown and errors in InfraredRemoteAnalyzer (checked under Spec) *)

HasUnknown(variants) == \E i \in 1..Len(variants) : "Unknown" \in DOMAIN variants[i]

\* the card of an Unknown control code, and the label of an Unknown frame
UnknownShown(st) ==
    /\ \A i \in 1..Len(st.ir_control_codes) :
          "Unknown" \in DOMAIN st.ir_control_codes[i] =>
              IrControlCode(st.ir_control_codes)[i] =
                  [title |-> "Frame# " \o ToString(i),
                   items |-> <<[label |-> "manufacturer", value |-> "fumei"],
                               [label |-> "device", value |-> "fumei"]>>]
    /\ \A i \in 1..Len(st.ir_decoded_frames) :
          "Unknown" \in DOMAIN st.ir_decoded_frames[i] =>
              ir_frame_value(st.ir_decoded_frames[i]) = [frame_label |-> "UNKNOWN", items |-> <<>>]

C14_Step ==
    /\ (state'.ir_decoded_frames # state.ir_decoded_frames
           \/ state'.ir_control_codes # state.ir_control_codes) => UnknownShown(state')
    /\ (todo # <<>> /\ todo' = Tail(todo) /\ Head(todo) = "decode" /\ HasUnknown(state'.ir_decoded_frames)) =>
          state'.alert.type = "success"
    /\ (todo # <<>> /\ todo' = Tail(todo) /\ Head(todo) = "interpret" /\ HasUnknown(state'.ir_control_codes)) =>
          state'.alert.type = "success"
    /\ (state'.alert.type = "error" /\ state'.alert # state.alert) =>
          /\ todo # <<>> /\ Head(todo) = "parse"
          /\ ~wasm_parse_infrared_code(rendered.input_text).ok
          /\ state'.alert.message = wasm_parse_infrared_code(rendered.input_text).error
    /\ (Settled' /\ HasUnknown(state'.ir_control_codes)) => state'.alert.type = "success"

----------------------------------------------------------------------------
(* The splitter's frames (checked under SpecApp) *)

\* C15: the splitter closes a Frame exactly at long gaps: within every
\* emitted Frame every pair except the last has a space not exceeding the
\* long-gap threshold, and the last pair of every Frame except possibly the
\* final one has a space exceeding it.
C15_ClosesAtLongGaps ==
    LET frames == state.ir_splitted_frames IN
    \A k \in 1..Len(frames) :
        /\ \A i \in 1..(Len(frames[k]) - 1) : frames[k][i].space <= FrameGapMicros
        /\ k < Len(frames) => frames[k][Len(frames[k])].space > FrameGapMicros

\* C15: the frames of three transmissions, each closed by the 10 ms gap but
\* the last, which the end of the input closes
C15_Witness ==
    /\ Len(state.ir_splitted_frames) = 3
    /\ Len(state.ir_splitted_frames[1]) > 1
    /\ state.ir_splitted_frames[1][Len(state.ir_splitted_frames[1])].space = TransmissionGap
    /\ state.ir_splitted_frames[2][Len(state.ir_splitted_frames[2])].space = TransmissionGap
    /\ state.ir_splitted_frames[3][Len(state.ir_splitted_frames[3])].space = 0

----------------------------------------------------------------------------
(* The frame view (checked under SpecStage) *)

ViewedBits == ValueOf(stage_in.decorded_frame)

\* C16: grouping an AEHA bitstream into octets keeps arrival order and loses
\* no bit: the groups shown, concatenated in order, are the bitstream; every
\* group but the last holds exactly 8 bits; the last group of a bitstream
\* whose bit count is not a multiple of 8 is its remaining bits, unpadded
\* (a function of the bitstream alone); group k is labelled with its offset.
C16_OctetsInOrder ==
    (stage_out.stage = "view" /\ "Aeha" \in DOMAIN stage_in.decorded_frame) =>
        LET items == stage_out.shown.items
            n == Len(ViewedBits)
        IN /\ Concat([k \in 1..Len(items) |-> items[k].bits]) = ViewedBits
           /\ \A k \in 1..(Len(items) - 1) : Len(items[k].bits) = 8
           /\ Len(items) = (n + 7) \div 8
           /\ (n % 8 # 0) => items[Len(items)].bits = SubSeq(ViewedBits, n - (n % 8) + 1, n)
           /\ \A k \in 1..Len(items) : items[k].label = "offset " \o ToString(8 * (k - 1))
           /\ stage_out.shown.protocol = "AEHA"

\* C16: a bitstream of 19 bits shown as two octets and a group of 3 bits
C16_Witness ==
    /\ stage_out.stage = "view"
    /\ "Aeha" \in DOMAIN stage_in.decorded_frame
    /\ ViewedBits = SircBits(19, TRUE)
    /\ Len(stage_out.shown.items) = 3
    /\ stage_out.shown.items[3].bits = <<1, 0, 1>>
    /\ stage_out.shown.items[3].label = "offset 16"

\* C17 (as claimed): for every Sirc frame of 12 or 15 bits the command field
\* shown is the first 7 bits in arrival order and the address field shown is
\* the bits that follow (5 bits of a 12-bit frame, 8 bits of a 15-bit one).
C17_SircFieldWidths ==
    (/\ stage_out.stage = "view"
     /\ "Sirc" \in DOMAIN stage_in.decorded_frame
     /\ Len(ViewedBits) \in {12, 15}) =>
        LET items == stage_out.shown.items IN
        /\ Len(items) = 2
        /\ items[1].label = "command"
        /\ items[1].bits = SubSeq(ViewedBits, 1, 7)
        /\ items[2].label = "address"
        /\ items[2].bits = SubSeq(ViewedBits, 8, Len(ViewedBits))

----------------------------------------------------------------------------
(* The bit order of InfraredRemoteAnalyzer (checked under Spec) *)

\* the bits IrDecordedFrame shows for the decoded frames of a state
ShownBits(st, msb_first) ==
    [i \in 1..Len(st.ir_decoded_frames) |->
        LET shown == IrDecordedFrame([msb_first |-> msb_first, index |-> i - 1,
                                      decorded_frame |-> st.ir_decoded_frames[i]])
        IN [k \in 1..Len(shown.items) |-> shown.items[k].bits]]

\* the bit groups ir_frame_value cuts out of the decoded frames of a state
FrameBits(st) ==
    [i \in 1..Len(st.ir_decoded_frames) |->
        LET value == ir_frame_value(st.ir_decoded_frames[i])
        IN [k \in 1..Len(value.items) |-> value.items[k].value]]

C18_Step ==
    /\ state'.ir_decoded_frames # state.ir_decoded_frames =>
          \A msb_first \in BOOLEAN : ShownBits(state', msb_first) = FrameBits(state')
    /\ (\E checked \in BOOLEAN : SwitchBitOrder(checked)) =>
          /\ \A f \in DOMAIN state \ {"msb_first"} : state'[f] = state[f]
          /\ ShownBits(state', state'.msb_first) = ShownBits(state, state.msb_first)
          /\ fresh' = {} /\ todo' = <<>>
          /\ EffectsOf(AnalyzerEffects, AnalyzerDeps, fresh') = <<>>

\* C18: the MSB/LSB bit order is a read-only view: in either order the bits
\* shown for the frames a step stores are the frames' own bits (to_hex_string
\* leaves the array it is given as it was), and a step of the bit-order Switch changes
\* msb_first and no other field of the state, marks no dependency of an
\* effect as changed, and so is followed by a render that runs no effect
\* (no re-decode).
C18_BitOrderReadOnly == [][C18_Step]_vars

\* C18: a settled display of the two-frame capture with the Switch at MSB
\* first, the frames and codes those of the capture
C18_Witness ==
    /\ Settled
    /\ state.msb_first
    /\ state.input_text = TwoFrameText
    /\ Len(state.ir_decoded_frames) = 2
    /\ "Sirc" \in DOMAIN state.ir_decoded_frames[1]
    /\ ShownBits(state, TRUE)[1] = <<Slice(state.ir_decoded_frames[1].Sirc, 0, 5),
                                      Slice(state.ir_decoded_frames[1].Sirc, 5, 12)>>
    /\ state.ir_control_codes = Pipeline(TwoFrameText)

----------------------------------------------------------------------------
(* The effect chain of InfraredRemoteAnalyzer (checked under Spec) *)

\* the parser throws for a text
Throws(text) == text # <<>> /\ ~wasm_parse_infrared_code(text).ok

C19_Step ==
    /\ (/\ todo # <<>> /\ Head(todo) = "parse" /\ todo' = Tail(todo)
        /\ Throws(rendered.input_text)) =>
          /\ state'.input_text = state.input_text
          /\ state'.ir_mark_and_spaces = <<>>
          /\ state'.alert = AlertError(wasm_parse_infrared_code(rendered.input_text).error)
    /\ (Settled' /\ Throws(state'.input_text)) =>
          /\ state'.ir_mark_and_spaces = <<>>
          /\ state'.ir_decoded_frames = <<>>
          /\ state'.ir_control_codes = <<>>
          /\ state'.alert = AlertError(wasm_parse_infrared_code(state'.input_text).error)

Staged(text) ==
    LET pairs == IF text = <<>> \/ Throws(text) THEN <<>>
                 ELSE wasm_parse_infrared_code(text).value
        frames == IF pairs = <<>> THEN <<>> ELSE wasm_decord_receiving_data(pairs)
        codes == IF frames = <<>> THEN <<>> ELSE wasm_decord_ir_frames(frames)
    IN [ir_mark_and_spaces |-> pairs, ir_decoded_frames |-> frames, ir_control_codes |-> codes]

\* C20: after any sequence of text edits, row clicks, auto-pastes and
\* resets, once the effects have settled the staged outputs are the forward
\* composition on the current input_text: the pairs are its parse, the
\* frames the decoding of the pairs, the codes the interpretation of the
\* frames, each empty when its input is empty or its stage threw; no stage
\* holds an output derived from an earlier input.
C20_ForwardComposition ==
    Settled =>
        LET staged == Staged(state.input_text) IN
        /\ state.ir_mark_and_spaces = staged.ir_mark_and_spaces
        /\ state.ir_decoded_frames = staged.ir_decoded_frames
        /\ state.ir_control_codes = staged.ir_control_codes

\* C20: the second record, pasted by the arrival effect over the analysis
\* of the first, which is a different capture
C20_Witness ==
    /\ Settled
    /\ state.automatically_paste
    /\ Len(rxJsonData) = 2
    /\ rxJsonData[1] # rxJsonData[2]
    /\ state.input_text = JSON_stringify(rxJsonData[2].rawData)
    /\ Len(state.ir_control_codes) = 1
    /\ "Sirc" \in DOMAIN state.ir_control_codes[1]

----------------------------------------------------------------------------
(* The four-phase App after a text that fails to parse (checked under SpecApp) *)

\* C24: in the four-phase App, once the effects have settled on an entered
\* text that fails to parse, state holds no split frames, no demodulated
\* frames, no decoded frames and no control codes (those of the previous
\* text are gone).
C24_NoStaleOutputs ==
    (/\ Settled
     /\ Len(state.input_text) > 0
     /\ ~wasm_parse_infrared_code(state.input_text).ok)
        => /\ state.ir_splitted_frames = <<>>
           /\ state.ir_demodulated_frames = <<>>
           /\ state.ir_decoded_frames = <<>>
           /\ state.ir_control_codes = <<>>

----------------------------------------------------------------------------
(* The confirmed length of InfraredRemoteAnalyzer (checked under Spec) *)

\* the arrival effect of this commit is about to read the record it pastes
ArrivalReads ==
    /\ todo # <<>>
    /\ Head(todo) = "arrival"
    /\ Len(seen_rx) # rendered.confirmed_rx_json_data_length
    /\ rendered.automatically_paste

\* C29: confirmed_rx_json_data_length never exceeds rxJsonData.length, in
\* state and in the render an effect closes over, and whenever the arrival
\* effect reads rxJsonData[confirmed_rx_json_data_length] for auto-paste
\* that index is one of the records.
C29_ConfirmedWithinRecords ==
    /\ state.confirmed_rx_json_data_length <= Len(rxJsonData)
    /\ rendered.confirmed_rx_json_data_length <= Len(seen_rx)
    /\ ArrivalReads => rendered.confirmed_rx_json_data_length + 1 \in 1..Len(seen_rx)

\* the arrival effect is about to paste the second record, the last index
C29_Witness ==
    /\ ArrivalReads
    /\ rendered.confirmed_rx_json_data_length = 1
    /\ Len(seen_rx) = 2

----------------------------------------------------------------------------
(* The arrival message of InfraredRemoteAnalyzer (checked under Spec) *)

\* this step is the arrival effect calling messageApi.open
OpensArrivalMessage ==
    /\ todo # <<>>
    /\ Head(todo) = "arrival"
    /\ todo' = Tail(todo)
    /\ Len(seen_rx) # rendered.confirmed_rx_json_data_length

C30_Step == OpensArrivalMessage => Len(seen_rx) > message_rx_length

\* C30: the 'new IR code arrival' message is opened only when rxJsonData
\* is longer than it was when the previous arrival message was opened;
\* Reset, clearing the text area and other state changes open none.
C30_MessageOnlyOnGrowth == [][C30_Step]_vars

----------------------------------------------------------------------------
(* Auto-paste in InfraredRemoteAnalyzer (checked under Spec) *)

\* the arrival effect runs for records that arrived since its last message
RecordsArrive == OpensArrivalMessage /\ Len(seen_rx) > message_rx_length

C22_Step ==
    /\ (RecordsArrive /\ switch_checked)
          => /\ state'.confirmed_rx_json_data_length = Len(seen_rx)
             /\ state'.input_text = JSON_stringify(seen_rx[Len(seen_rx)].rawData)
    /\ (RecordsArrive /\ ~switch_checked) => state'.input_text = state.input_text

\* C22: when records have arrived and the auto-paste Switch shows on, the
\* arrival effect confirms them (confirmed_rx_json_data_length becomes
\* rxJsonData.length) and makes input_text the JSON text of the newest
\* record's rawData; when the Switch shows off, it leaves input_text alone.
C22_AutoPasteFollowsSwitch == [][C22_Step]_vars

----------------------------------------------------------------------------
(* Properties of SerialConnectionEffect (checked under SpecSerial) *)

\* this step is a commit that runs the rxText effect
RxTextEffectRuns == rxText # seen_text /\ seen_text' = rxText

C21_Step ==
    RxTextEffectRuns =>
        LET last == CandidateLine(rxText) IN
        IF last # <<>> /\ JSON_parse(last).ok
        THEN /\ Len(rxJsonData') = Len(rxJsonData) + 1
             /\ SubSeq(rxJsonData', 1, Len(rxJsonData)) = rxJsonData
             /\ rxText' = <<>>
        ELSE /\ rxJsonData' = rxJsonData
             /\ rxText' = rxText

\* C21: each time rxText changes, the rxText effect either finds that its
\* candidate line parses as JSON, and then exactly one record is appended to
\* rxJsonData and rxText becomes empty, or finds the candidate empty or not
\* JSON, and then leaves rxText and rxJsonData as they are.
C21_OneRecordOrNothing == [][C21_Step]_vars

\* the first line's record has been appended and the effect has then run on
\* the start of the second line, which is not JSON, and kept it
C21_Witness ==
    /\ Len(rxJsonData) = 1
    /\ rxText # <<>>
    /\ seen_text = rxText
    /\ ~JSON_parse(CandidateLine(rxText)).ok

\* the records of the newline-terminated lines of a buffer that are JSON
CompleteRecords(text) ==
    LET lines == SplitLines(text)
        whole == SelectSeq(SubSeq(lines, 1, Len(lines) - 1),
                           LAMBDA line : line # <<>> /\ JSON_parse(line).ok)
    IN [k \in 1..Len(whole) |-> JSON_parse(whole[k]).value]

C23_Step ==
    RxTextEffectRuns =>
        LET arrived == CompleteRecords(rxText) IN
        /\ Len(rxJsonData') >= Len(rxJsonData) + Len(arrived)
        /\ SubSeq(rxJsonData', Len(rxJsonData) + 1, Len(rxJsonData) + Len(arrived)) = arrived

\* C23: whatever chunks the reads deliver, when the rxText effect runs on a
\* buffer every complete newline-terminated JSON line in it is appended to
\* rxJsonData, once each and in the order of the lines.
C23_EveryLineOnceInOrder == [][C23_Step]_vars

C25_Step ==
    /\ Cardinality(timers') + Cardinality(reads') <= 1
    /\ \A r \in reads' \ reads : r = serialPort.reader

\* C25: there is never more than one pending poll timer or read in flight,
\* and a read is only ever issued on the reader serialPortState holds.
C25_OneReceiveLoop == [][C25_Step]_vars

\* C26: whenever serialPortState is undefined and no open or close is in
\* progress, no port is open with a reader locking it.
C26_NothingLeftOpen ==
    (serialPort = NoPort /\ opening = <<>> /\ closing_ports = {})
        => \A p \in Ports : ~(ports[p].open /\ ports[p].reader # 0)

C27_Step ==
    \A r \in reads' \ reads : readers[r] \notin {"done", "released", "errored"}

\* C27: once a reader has reported done, has failed or has been released
\* by a close, no further read is issued on it.
C27_LoopStops == [][C27_Step]_vars

\* C28: rxJsonData is append-only: every step keeps every record at its
\* index (the only atom ever emptied is rxText).
C28_AppendOnly ==
    [][/\ Len(rxJsonData') >= Len(rxJsonData)
       /\ SubSeq(rxJsonData', 1, Len(rxJsonData)) = rxJsonData]_vars

\* a software reset has emptied a buffer that held the start of the second
\* line, after the first line's record was appended
C28_Witness ==
    /\ Len(rxJsonData) = 1
    /\ rxText = <<>>
    /\ seen_text # <<>>
    /\ ~JSON_parse(CandidateLine(seen_text)).ok

====
